---- MODULE Spec2Model ----
(***************************************************************************)
(* A model of the DATATUI analysis engine: the DataAnalyzer coordinator    *)
(* (src/src/core/analyzer.py) with its per-kind cache, and the detectors   *)
(* it drives (schema, statistics, missing, outliers, correlations,         *)
(* distributions).                                                         *)
(*                                                                         *)
(* Conventions.                                                            *)
(*  - A string (column name, dtype name) is a sequence of one-character    *)
(*    strings, so that Python's substring test `a in b` is computed.       *)
(*  - A cell is <<>> (null) or <<v>> (the value v).                        *)
(*  - A real number is an exact fraction [n |-> numerator, d |-> den > 0]  *)
(*    in lowest terms; round(x, 2) yields an integer count of hundredths.  *)
(*  - A call returns [exc |-> FALSE, val |-> v] or raises, [exc |-> TRUE]. *)
(***************************************************************************)
EXTENDS Integers, Sequences, FiniteSets, TLC

(***************************************************************************)
(* Bounds of the model.                                                    *)
(***************************************************************************)
\* rows of the exhaustively enumerated small tables
MaxRows == 2
\* largest integer cell value of the enumerated small tables
MaxVal == 1

(***************************************************************************)
(* Strings as character sequences.                                         *)
(***************************************************************************)
\* Python `sub in s` for strings
StrIn(sub, s) ==
    \E i \in 0..(Len(s) - Len(sub)) :
        \A j \in 1..Len(sub) : s[i + j] = sub[j]

\* Python any(t in dtype for t in toks)
AnyIn(toks, s) == \E t \in toks : StrIn(t, s)

\* the letters, for str.lower() and the character classes of the patterns
LowerSeq ==
    <<"a", "b", "c", "d", "e", "f", "g", "h", "i", "j", "k", "l", "m", "n",
      "o", "p", "q", "r", "s", "t", "u", "v", "w", "x", "y", "z">>
UpperSeq ==
    <<"A", "B", "C", "D", "E", "F", "G", "H", "I", "J", "K", "L", "M", "N",
      "O", "P", "Q", "R", "S", "T", "U", "V", "W", "X", "Y", "Z">>
Letter == {LowerSeq[i] : i \in DOMAIN LowerSeq} \cup {UpperSeq[i] : i \in DOMAIN UpperSeq}
Digit == {"0", "1", "2", "3", "4", "5", "6", "7", "8", "9"}
\* \s
Whitespace == {" ", "\t", "\n", "\r", "\f"}

\* Python s.lower()
StrLower(s) ==
    [i \in 1..Len(s) |->
        IF \E k \in DOMAIN UpperSeq : UpperSeq[k] = s[i]
        THEN LowerSeq[CHOOSE k \in DOMAIN UpperSeq : UpperSeq[k] = s[i]]
        ELSE s[i]]

(***************************************************************************)
(* Regular expressions, matched from the start of s as re.match does.  A   *)
(* set P holds the positions that the part of the pattern read so far can  *)
(* have reached (the index of the next character); each operator extends   *)
(* the pattern by one element.                                             *)
(***************************************************************************)
\* a literal string
ReLit(P, s, lit) ==
    {p + Len(lit) : p \in {q \in P : /\ q + Len(lit) - 1 <= Len(s)
                                    /\ \A j \in 1..Len(lit) :
                                           s[q + j - 1] = lit[j]}}
\* [chars]{lo,hi}
ReRep(P, s, chars, lo, hi) ==
    {q \in 1..(Len(s) + 1) :
        \E p \in P : /\ q - p >= lo
                     /\ q - p <= hi
                     /\ \A j \in p..(q - 1) : s[j] \in chars}
\* [chars]{lo,}
ReMany(P, s, chars, lo) == ReRep(P, s, chars, lo, Len(s))
\* [chars]?
ReOpt(P, s, chars) == ReRep(P, s, chars, 0, 1)
\* $: the end of s, or the position before a final newline
ReEnd(P, s) ==
    \/ Len(s) + 1 \in P
    \/ Len(s) \in P /\ Len(s) >= 1 /\ s[Len(s)] = "\n"

tInt == <<"I", "n", "t">>
tUInt == <<"U", "I", "n", "t">>
tFloat == <<"F", "l", "o", "a", "t">>
tDate == <<"D", "a", "t", "e">>
tDatetime == <<"D", "a", "t", "e", "t", "i", "m", "e">>
tTime == <<"T", "i", "m", "e">>
tBoolean == <<"B", "o", "o", "l", "e", "a", "n">>
tBool == <<"B", "o", "o", "l">>
tString == <<"S", "t", "r", "i", "n", "g">>
tUtf8 == <<"U", "t", "f", "8">>
tCategorical == <<"C", "a", "t", "e", "g", "o", "r", "i", "c", "a", "l">>
tColumn_ == <<"c", "o", "l", "u", "m", "n", "_">>

\* str(series.dtype) of the polars dtypes the model's datasets use
Int64 == tInt \o <<"6", "4">>
String == tString
Boolean == tBoolean
Date == tDate
Categorical == tCategorical

(***************************************************************************)
(* Exact fractions.                                                        *)
(***************************************************************************)
Abs(x) == IF x < 0 THEN -x ELSE x

RECURSIVE GCD(_, _)
GCD(a, b) == IF b = 0 THEN a ELSE GCD(b, a % b)

Rat(n, d) ==
    LET g == GCD(Abs(n), Abs(d))
        s == IF d < 0 THEN -1 ELSE 1
    IN [n |-> (s * n) \div g, d |-> (s * d) \div g]

RInt(k) == [n |-> k, d |-> 1]
RNeg(x) == [n |-> -x.n, d |-> x.d]
\* sums and products reduce before they multiply, to keep the terms small
RAdd(x, y) ==
    LET g == GCD(x.d, y.d)
    IN Rat(x.n * (y.d \div g) + y.n * (x.d \div g), (x.d \div g) * y.d)
RSub(x, y) == RAdd(x, RNeg(y))
RMul(x, y) ==
    LET g1 == GCD(Abs(x.n), y.d)
        g2 == GCD(Abs(y.n), x.d)
        h1 == IF g1 = 0 THEN 1 ELSE g1
        h2 == IF g2 = 0 THEN 1 ELSE g2
    IN Rat((x.n \div h1) * (y.n \div h2), (x.d \div h2) * (y.d \div h1))
RDivInt(x, k) == RMul(x, [n |-> 1, d |-> k])
RDiv(x, y) == RMul(x, IF y.n < 0 THEN [n |-> -y.d, d |-> -y.n]
                                 ELSE [n |-> y.d, d |-> y.n])
RLt(x, y) == RSub(x, y).n < 0
RLe(x, y) == RSub(x, y).n <= 0
RMax(x, y) == IF RLt(x, y) THEN y ELSE x

\* Python round(x, 2) for x >= 0, as the integer number of hundredths
\* (ties to the even hundredth)
Round2(x) ==
    LET num == 100 * x.n
        q == num \div x.d
        r == num % x.d
    IN IF 2 * r > x.d THEN q + 1
       ELSE IF 2 * r < x.d THEN q
       ELSE IF q % 2 = 0 THEN q ELSE q + 1

(***************************************************************************)
(* Sequences of integers.                                                  *)
(***************************************************************************)
\* s[lo] + ... + s[hi], by halves
RECURSIVE SumRange(_, _, _)
SumRange(s, lo, hi) ==
    IF lo > hi THEN 0
    ELSE IF lo = hi THEN s[lo]
    ELSE LET mid == (lo + hi) \div 2
         IN SumRange(s, lo, mid) + SumRange(s, mid + 1, hi)

SumSeq(s) == SumRange(s, 1, Len(s))

\* the ascending rearrangement of s: its k-th element is the value with
\* fewer than k smaller elements and at least k elements not above it
Sort(s) ==
    LET Ranked(below, upto) ==
            [k \in 1..Len(s) |->
                CHOOSE v \in DOMAIN below : below[v] < k /\ k <= upto[v]]
    IN Ranked([v \in {s[i] : i \in DOMAIN s} |->
                  Cardinality({i \in DOMAIN s : s[i] < v})],
              [v \in {s[i] : i \in DOMAIN s} |->
                  Cardinality({i \in DOMAIN s : s[i] <= v})])

\* [i for i, flag in enumerate(mask) if flag], 0-based and ascending
IndicesFrom(mask, first) ==
    SelectSeq([i \in 1..Len(mask) |-> first + i - 1],
              LAMBDA i : mask[i - first + 1])

Range(s) == {s[i] : i \in DOMAIN s}

\* Python s[:], the slice without an end
Whole(s, k) == s

\* Python s[:k]
Take(s, k) == SubSeq(s, 1, IF Len(s) < k THEN Len(s) ELSE k)

(***************************************************************************)
(* The dataset (a polars DataFrame): a sequence of columns, each with a    *)
(* name, a dtype and as many cells as the frame has rows.                  *)
(***************************************************************************)
Null == <<>>
Some(v) == <<v>>

Col(name, dtype, vals) == [name |-> name, dtype |-> dtype, vals |-> vals]

\* df.columns
Columns(df) == [i \in 1..Len(df) |-> df[i].name]

\* len(df)
NumRows(df) == IF Len(df) = 0 THEN 0 ELSE Len(df[1].vals)

\* the position of df[column] in the frame
ColIndex(df, column) == CHOOSE i \in 1..Len(df) : df[i].name = column

\* series.null_count()
NullCount(vals) == Cardinality({i \in DOMAIN vals : vals[i] = Null})

\* series.drop_nulls(), as the sequence of the values
DropNulls(vals) ==
    LET kept == SelectSeq(vals, LAMBDA c : c # Null)
    IN [i \in 1..Len(kept) |-> kept[i][1]]

\* series.n_unique() of a null-free series
NUnique(s) == Cardinality(Range(s))

(***************************************************************************)
(* MissingAnalyzer (src/datatui/core/missing.py).                          *)
(***************************************************************************)
\* a cut after 25 patterns
MaxPatternsMore == 5 * 5
\* max_patterns default of _detect_patterns
MaxPatterns == 20
\* row cap of the preview matrix
MatrixSample == 1000

\* count / total * 100, guarded as the code guards it (0 when total is 0)
Pct(count, total) == IF total > 0 THEN Rat(count * 100, total) ELSE RInt(0)

\* the percentage taken of the present values instead of the rows
ColumnMissingInfoOfPresent(df, i) ==
    LET missing_count == NullCount(df[i].vals)
    IN [column_name |-> df[i].name,
        missing_count |-> missing_count,
        present_count |-> NumRows(df) - missing_count,
        missing_percentage |->
            Pct(missing_count, NumRows(df) - missing_count),
        total_count |-> NumRows(df)]

\* one entry of MissingAnalyzer._analyze_columns
ColumnMissingInfo(df, i) ==
    LET missing_count == NullCount(df[i].vals)
    IN [column_name |-> df[i].name,
        missing_count |-> missing_count,
        present_count |-> NumRows(df) - missing_count,
        missing_percentage |-> Pct(missing_count, NumRows(df)),
        total_count |-> NumRows(df)]

\* MissingAnalyzer._analyze_columns: column name -> ColumnMissingInfo
AnalyzeColumnsMissing(df) ==
    [c \in Range(Columns(df)) |->
        ColumnMissingInfo(df, ColIndex(df, c))]

\* the tuple of the names of the columns that are null in row r
RECURSIVE MissingColsFrom(_, _, _)
MissingColsFrom(df, r, i) ==
    IF i > Len(df) THEN <<>>
    ELSE (IF df[i].vals[r] = Null THEN <<df[i].name>> ELSE <<>>)
         \o MissingColsFrom(df, r, i + 1)

\* pattern_rows with the empty tuples of the complete rows kept
PatternRowsOfAllRows(df) ==
    [r \in 1..NumRows(df) |-> MissingColsFrom(df, r, 1)]

\* pattern_rows: the non-empty tuples, in row order
PatternRows(df) ==
    SelectSeq([r \in 1..NumRows(df) |-> MissingColsFrom(df, r, 1)],
              LAMBDA m : m # <<>>)

\* the distinct elements of a sequence in order of first occurrence
\* (the key order of collections.Counter)
Distinct(s) ==
    LET firsts == SelectSeq([i \in 1..Len(s) |-> i],
                            LAMBDA i : \A j \in 1..(i - 1) : s[j] # s[i])
    IN [k \in 1..Len(firsts) |-> s[firsts[k]]]

CountOf(s, x) == Cardinality({i \in DOMAIN s : s[i] = x})

\* stable insertion of an item into a sequence sorted by descending count
RECURSIVE InsertByCount(_, _)
InsertByCount(x, s) ==
    IF s = <<>> THEN <<x>>
    ELSE IF x.count > Head(s).count THEN <<x>> \o s
    ELSE <<Head(s)>> \o InsertByCount(x, Tail(s))

\* items sorted by descending count, ties in their original order
RECURSIVE SortByCount(_)
SortByCount(s) ==
    IF s = <<>> THEN <<>>
    ELSE InsertByCount(s[Len(s)], SortByCount(SubSeq(s, 1, Len(s) - 1)))

\* Counter(pattern_rows).most_common(max_patterns), as MissingPattern records
DetectPatterns(df) ==
    LET Items(rows, keys) ==
            [k \in 1..Len(keys) |->
                [columns |-> keys[k],
                 count |-> CountOf(rows, keys[k]),
                 percentage |-> Rat(CountOf(rows, keys[k]) * 100,
                                    NumRows(df))]]
        Counted(rows) == Items(rows, Distinct(rows))
    IN IF NumRows(df) = 0 THEN <<>>
       ELSE Take(SortByCount(Counted(PatternRows(df))), MaxPatterns)

\* MissingAnalyzer._create_missing_matrix: null-ness of the first 1000 rows
CreateMissingMatrix(df) ==
    IF NumRows(df) = 0 \/ Len(df) = 0 THEN <<>>
    ELSE LET sample_size == IF NumRows(df) < MatrixSample
                            THEN NumRows(df) ELSE MatrixSample
         IN [r \in 1..sample_size |->
                [i \in 1..Len(df) |-> df[i].vals[r] = Null]]

\* MissingAnalyzer._count_complete_rows: the AND of is_not_null over the
\* columns, folded from a literal True, summed over the rows
RECURSIVE CompleteMask(_, _, _)
CompleteMask(df, r, i) ==
    IF i > Len(df) THEN TRUE
    ELSE CompleteMask(df, r, i + 1) /\ df[i].vals[r] # Null

\* _count_complete_rows with is_null for is_not_null in the row mask
CountAllNullRows(df) ==
    IF Len(df) = 0 THEN NumRows(df)
    ELSE SumSeq([r \in 1..NumRows(df) |->
                    IF \A i \in 1..Len(df) : df[i].vals[r] = Null
                    THEN 1 ELSE 0])

CountCompleteRows(df) ==
    IF Len(df) = 0 THEN NumRows(df)
    ELSE SumSeq([r \in 1..NumRows(df) |->
                    IF CompleteMask(df, r, 1) THEN 1 ELSE 0])

\* sum over a sequence of column indexes of the missing counts
RECURSIVE TotalMissingFrom(_, _)
TotalMissingFrom(df, i) ==
    IF i > Len(df) THEN 0
    ELSE NullCount(df[i].vals) + TotalMissingFrom(df, i + 1)

\* MissingAnalyzer.analyze_missing
MissingAnalyzerAnalyze(df) ==
    LET Result(total_missing, total_cells, complete_rows) ==
            [columns |-> AnalyzeColumnsMissing(df),
             total_missing_values |-> total_missing,
             total_cells |-> total_cells,
             overall_missing_percentage |-> Pct(total_missing, total_cells),
             columns_with_missing |->
                 SelectSeq(Columns(df),
                           LAMBDA c : NullCount(df[ColIndex(df, c)].vals) > 0),
             columns_count |-> Len(df),
             complete_rows |-> complete_rows,
             complete_rows_percentage |-> Pct(complete_rows, NumRows(df)),
             incomplete_rows |-> NumRows(df) - complete_rows,
             patterns |-> DetectPatterns(df),
             missing_matrix |-> CreateMissingMatrix(df)]
    IN Result(TotalMissingFrom(df, 1), NumRows(df) * Len(df),
              CountCompleteRows(df))

(***************************************************************************)
(* SchemaDetector (src/datatui/core/schema.py).  The memory estimate is    *)
(* not part of this model of ColumnSchema.                                 *)
(***************************************************************************)
CATEGORICAL_THRESHOLD == Rat(5, 100)
HIGH_CARDINALITY_THRESHOLD == Rat(5, 10)
MEDIUM_CARDINALITY_THRESHOLD == Rat(1, 10)

\* SchemaDetector._detect_data_type
DetectDataType(vals, dtype) ==
    IF StrIn(tInt, dtype) \/ StrIn(tUInt, dtype) \/ StrIn(tFloat, dtype)
    THEN "numeric"
    ELSE IF StrIn(tBoolean, dtype) \/ StrIn(tBool, dtype) THEN "boolean"
    ELSE IF StrIn(tDate, dtype) \/ StrIn(tDatetime, dtype) \/ StrIn(tTime, dtype)
    THEN "datetime"
    ELSE IF StrIn(tString, dtype) \/ StrIn(tUtf8, dtype)
            \/ StrIn(tCategorical, dtype)
    THEN LET non_null == DropNulls(vals)
         IN IF Len(non_null) = 0 THEN "text"
            ELSE IF RLe(Rat(NUnique(non_null), Len(non_null)),
                        CATEGORICAL_THRESHOLD)
            THEN "categorical"
            ELSE "text"
    ELSE "unknown"

\* EMAIL_PATTERN  ^[a-zA-Z0-9._%+-]+@[a-zA-Z0-9.-]+\.[a-zA-Z]{2,}$
MatchEmail(s) ==
    ReEnd(ReMany(ReLit(ReMany(ReLit(ReMany({1}, s,
                                           Letter \cup Digit
                                               \cup {".", "_", "%", "+", "-"},
                                           1),
                                    s, <<"@">>),
                              s, Letter \cup Digit \cup {".", "-"}, 1),
                       s, <<".">>),
                 s, Letter, 2),
          s)

\* URL_PATTERN  ^https?://[^\s]+$
MatchUrl(s) ==
    ReEnd(ReMany(ReLit(ReOpt(ReLit({1}, s, <<"h", "t", "t", "p">>), s, {"s"}),
                       s, <<":", "/", "/">>),
                 s, Range(s) \ Whitespace, 1),
          s)

\* PHONE_PATTERN
\* ^[\+]?[(]?[0-9]{1,4}[)]?[-\s\.]?[(]?[0-9]{1,4}[)]?[-\s\.]?[0-9]{1,9}$
MatchPhone(s) ==
    LET Group(P) ==
            ReOpt(ReOpt(ReRep(ReOpt(P, s, {"("}), s, Digit, 1, 4), s, {")"}),
                  s, {"-", "."} \cup Whitespace)
    IN ReEnd(ReRep(Group(Group(ReOpt({1}, s, {"+"}))), s, Digit, 1, 9), s)

\* IP_PATTERN  ^(?:[0-9]{1,3}\.){3}[0-9]{1,3}$
MatchIp(s) ==
    LET Part(P) == ReLit(ReRep(P, s, Digit, 1, 3), s, <<".">>)
    IN ReEnd(ReRep(Part(Part(Part({1}))), s, Digit, 1, 3), s)

\* ZIPCODE_PATTERN  ^\d{5}(-\d{4})?$
MatchZipcode(s) ==
    LET PlusFour(P) == P \cup ReRep(ReLit(P, s, <<"-">>), s, Digit, 4, 4)
    IN ReEnd(PlusFour(ReRep({1}, s, Digit, 5, 5)), s)

\* substrings of the lower-cased column name that decide the semantic type
kId == <<"i", "d">>
kPrice == <<"p", "r", "i", "c", "e">>
kCost == <<"c", "o", "s", "t">>
kAmount == <<"a", "m", "o", "u", "n", "t">>
kPercent == <<"p", "e", "r", "c", "e", "n", "t">>
kPct == <<"p", "c", "t">>
kRate == <<"r", "a", "t", "e">>
kLat == <<"l", "a", "t">>
kLon == <<"l", "o", "n">>
kLng == <<"l", "n", "g">>
kEmail == <<"e", "m", "a", "i", "l">>
kUrl == <<"u", "r", "l">>
kLink == <<"l", "i", "n", "k">>
kWebsite == <<"w", "e", "b", "s", "i", "t", "e">>
kPhone == <<"p", "h", "o", "n", "e">>
kTel == <<"t", "e", "l">>
kMobile == <<"m", "o", "b", "i", "l", "e">>
kZip == <<"z", "i", "p">>
kPostal == <<"p", "o", "s", "t", "a", "l">>
kIp == <<"i", "p">>

\* the number of sampled strings that the pattern matches
Matches(sample_str, Match(_)) ==
    Cardinality({i \in DOMAIN sample_str : Match(sample_str[i])})

\* SchemaDetector._detect_semantic_type; series is the column without its
\* nulls, so the sample is the first (up to) 100 values and str(x) of a
\* string is the string.  matches / len(sample_str) > 0.8 is decided as
\* 10 * matches > 8 * len(sample_str).
DetectSemanticType(series, column_name, data_type) ==
    LET Accepted(matches, n) == 10 * matches > 8 * n
        Numeric(column_lower) ==
            IF StrIn(kId, column_lower) THEN "id"
            ELSE IF AnyIn({kPrice, kCost, kAmount}, column_lower)
            THEN "currency"
            ELSE IF AnyIn({kPercent, kPct, kRate}, column_lower)
            THEN "percentage"
            ELSE IF AnyIn({kLat, kLon, kLng}, column_lower) THEN "coordinate"
            ELSE "none"
        Textual(column_lower, sample_str) ==
            IF Len(sample_str) = 0 THEN "none"
            ELSE IF StrIn(kEmail, column_lower) THEN "email"
            ELSE IF AnyIn({kUrl, kLink, kWebsite}, column_lower) THEN "url"
            ELSE IF AnyIn({kPhone, kTel, kMobile}, column_lower) THEN "phone"
            ELSE IF AnyIn({kZip, kPostal}, column_lower) THEN "zipcode"
            ELSE IF StrIn(kIp, column_lower) THEN "ip_address"
            ELSE IF Accepted(Matches(sample_str, MatchEmail), Len(sample_str))
            THEN "email"
            ELSE IF Accepted(Matches(sample_str, MatchUrl), Len(sample_str))
            THEN "url"
            ELSE IF Accepted(Matches(sample_str, MatchPhone), Len(sample_str))
            THEN "phone"
            ELSE IF Accepted(Matches(sample_str, MatchIp), Len(sample_str))
            THEN "ip_address"
            ELSE IF Accepted(Matches(sample_str, MatchZipcode),
                             Len(sample_str))
            THEN "zipcode"
            ELSE "none"
    IN IF Len(series) = 0 THEN "none"
       ELSE IF data_type = "numeric" THEN Numeric(StrLower(column_name))
       ELSE IF data_type \in {"text", "categorical"}
       THEN Textual(StrLower(column_name), Take(series, 100))
       ELSE "none"

\* SchemaDetector._detect_cardinality
DetectCardinality(unique_count, total_count) ==
    LET Label(ratio) ==
            IF RLt(HIGH_CARDINALITY_THRESHOLD, ratio) THEN "high"
            ELSE IF RLt(MEDIUM_CARDINALITY_THRESHOLD, ratio) THEN "medium"
            ELSE "low"
    IN IF total_count = 0 THEN "constant"
       ELSE IF unique_count = 1 THEN "constant"
       ELSE IF unique_count = total_count THEN "unique"
       ELSE Label(Rat(unique_count, total_count))

\* SchemaDetector._get_sample_values with n = 5
GetSampleValues(non_null) == Take(non_null, 5)

\* SchemaDetector._analyze_column
SchemaAnalyzeColumn(df, i) ==
    LET Schema(non_null) ==
            [column_name |-> df[i].name,
             dtype |-> df[i].dtype,
             data_type |-> DetectDataType(df[i].vals, df[i].dtype),
             semantic_type |->
                 DetectSemanticType(non_null, df[i].name,
                                    DetectDataType(df[i].vals, df[i].dtype)),
             unique_count |-> NUnique(non_null),
             cardinality |-> DetectCardinality(NUnique(non_null),
                                               Len(non_null)),
             null_count |-> NullCount(df[i].vals),
             null_percentage |-> Pct(NullCount(df[i].vals), NumRows(df)),
             sample_values |-> GetSampleValues(non_null)]
    IN Schema(DropNulls(df[i].vals))

\* SchemaDetector.detect_schema: column name -> ColumnSchema
DetectSchema(df) ==
    [c \in Range(Columns(df)) |-> SchemaAnalyzeColumn(df, ColIndex(df, c))]

DataTypes == {"numeric", "categorical", "datetime", "text", "boolean", "unknown"}

\* SchemaDetector.get_schema_summary
GetSchemaSummary(df) ==
    LET Summary(schema) ==
            [total_columns |-> Cardinality(DOMAIN schema),
             total_rows |-> NumRows(df),
             type_distribution |->
                 [t \in {schema[c].data_type : c \in DOMAIN schema} |->
                     Cardinality({c \in DOMAIN schema :
                                     schema[c].data_type = t})],
             columns_with_nulls |->
                 Cardinality({c \in DOMAIN schema : schema[c].null_count > 0}),
             high_cardinality_columns |->
                 SelectSeq(Columns(df),
                           LAMBDA c : schema[c].cardinality
                                          \in {"high", "unique"}),
             columns |-> schema]
    IN Summary(DetectSchema(df))

(***************************************************************************)
(* polars Series aggregations over a null-free integer series.             *)
(***************************************************************************)
\* series.quantile(num/den, interpolation='linear')
Quantile(s, num, den) ==
    LET Between(idx, top, lower, upper) ==
            IF top = idx \/ lower = upper THEN RInt(lower)
            ELSE RAdd(RMul(Rat(((Len(s) - 1) * num) % den, den),
                           RInt(upper - lower)),
                      RInt(lower))
        At(sorted, idx, top) ==
            Between(idx, top, sorted[idx + 1], sorted[top + 1])
        From(sorted, n, idx) ==
            At(sorted, idx, IF idx + 1 < n - 1 THEN idx + 1 ELSE n - 1)
    IN From(Sort(s), Len(s), ((Len(s) - 1) * num) \div den)

\* series.median()
Median(s) == Quantile(s, 1, 2)

\* series.mean()
Mean(s) == Rat(SumSeq(s), Len(s))

RECURSIVE RPow(_, _)
RPow(x, k) == IF k = 0 THEN RInt(1) ELSE RMul(x, RPow(x, k - 1))

\* sum((x - c) ** k) over the series, for a fraction c = n/d: the terms
\* over the common denominator are the integers (d*x - n)^k, divided by
\* d^k once
SumPowDev(s, c, k) ==
    Rat(SumSeq([i \in 1..Len(s) |-> (c.d * s[i] - c.n) ^ k]), c.d ^ k)

\* series.var() with ddof = 1: None (here <<>>) unless there are at least
\* two values, else <<variance>>
Var(s) ==
    IF Len(s) <= 1 THEN <<>>
    ELSE <<RDivInt(SumPowDev(s, Mean(s), 2), Len(s) - 1)>>

\* series.min(), series.max()
Min(s) == CHOOSE x \in Range(s) : \A y \in Range(s) : x <= y
Max(s) == CHOOSE x \in Range(s) : \A y \in Range(s) : y <= x

(***************************************************************************)
(* value_counts().sort('count', descending=True): the distinct values by   *)
(* descending count.  polars leaves the order of equally frequent values   *)
(* unspecified, so every order compatible with the counts is possible.     *)
(***************************************************************************)
ValueOrders(s) ==
    LET vs == Range(s)
        k == Cardinality(vs)
    IN {o \in [1..k -> vs] :
           /\ \A i, j \in 1..k : i # j => o[i] # o[j]
           /\ \A i \in 1..k : i < k => CountOf(s, o[i]) >= CountOf(s, o[i + 1])}

(***************************************************************************)
(* Results of calls, optional values, and irrational results.              *)
(***************************************************************************)
Ok(v) == [exc |-> FALSE, val |-> v]
\* the value of a call that returns nothing
NoValue == [none |-> TRUE]
Raised == [exc |-> TRUE]
None == <<>>

\* the real number num / sqrt(var) ** p, kept symbolic; zero has one form
Surd(num, var, p) ==
    IF num.n = 0 THEN [num |-> RInt(0), var |-> RInt(1), p |-> 0]
    ELSE [num |-> num, var |-> var, p |-> p]
Zero == RInt(0)
SurdZero == Surd(Zero, RInt(1), 0)

\* str(value) of a cell value of the given dtype
tTrue == <<"T", "r", "u", "e">>
tFalse == <<"F", "a", "l", "s", "e">>
PyStr(dtype, v) ==
    IF StrIn(tBool, dtype) THEN (IF v THEN tTrue ELSE tFalse) ELSE v

(***************************************************************************)
(* StatisticsAnalyzer (src/src/core/statistics.py).  `order` is the sorted *)
(* value-frequency table of the column (one of ValueOrders).               *)
(***************************************************************************)
IsNumeric(dtype) == AnyIn({tInt, tUInt, tFloat}, dtype)
IsDatetime(dtype) == AnyIn({tDate, tDatetime, tTime}, dtype)

\* StatisticsAnalyzer._is_categorical
IsCategorical(col) ==
    IF StrIn(tCategorical, col.dtype) THEN TRUE
    ELSE LET non_null == DropNulls(col.vals)
         IN IF Len(non_null) = 0 THEN FALSE
            ELSE RLe(Rat(NUnique(non_null), Len(non_null)), Rat(5, 100))

\* StatisticsAnalyzer._calculate_mode
CalculateMode(series, order) ==
    IF Len(series) = 0 THEN None
    ELSE IF Len(order) = 0 THEN None
    ELSE <<order[1]>>

\* StatisticsAnalyzer._calculate_skewness
CalculateSkewness(series, mean, var, n) ==
    IF n < 3 \/ var.n = 0 THEN SurdZero
    ELSE Surd(RDivInt(SumPowDev(series, mean, 3), n), var, 3)

\* StatisticsAnalyzer._calculate_kurtosis
CalculateKurtosis(series, mean, var, n) ==
    IF n < 4 \/ var.n = 0 THEN Zero
    ELSE RSub(RDiv(RDivInt(SumPowDev(series, mean, 4), n), RMul(var, var)),
              RInt(3))

\* the record that _analyze_numeric returns when count == 0
EmptyNumericStats(null_count) ==
    [type |-> "NumericStats", count |-> 0, null_count |-> null_count,
     mean |-> Zero, median |-> Zero, mode |-> None, std |-> SurdZero,
     variance |-> Zero, min |-> Zero, max |-> Zero, range |-> Zero,
     q25 |-> Zero, q50 |-> Zero, q75 |-> Zero, iqr |-> Zero,
     skewness |-> SurdZero, kurtosis |-> Zero, cv |-> SurdZero,
     sum |-> Zero, zero_count |-> 0, negative_count |-> 0,
     positive_count |-> 0]

\* StatisticsAnalyzer._analyze_numeric; float(None) raises TypeError when
\* std() of a single value is None
AnalyzeNumeric(col, order) ==
    LET Stats(non_null, count, mean, variance, q25, q75, lo, hi) ==
            [type |-> "NumericStats", count |-> count,
             null_count |-> NullCount(col.vals),
             mean |-> mean,
             median |-> Median(non_null),
             mode |-> CalculateMode(non_null, order),
             std |-> Surd(variance, variance, 1),
             variance |-> variance,
             min |-> RInt(lo),
             max |-> RInt(hi),
             range |-> RInt(hi - lo),
             q25 |-> q25,
             q50 |-> Quantile(non_null, 1, 2),
             q75 |-> q75,
             iqr |-> RSub(q75, q25),
             skewness |-> CalculateSkewness(non_null, mean, variance, count),
             kurtosis |-> CalculateKurtosis(non_null, mean, variance, count),
             cv |-> IF mean.n # 0
                    THEN Surd(RDiv(variance, mean), variance, 1)
                    ELSE SurdZero,
             sum |-> RInt(SumSeq(non_null)),
             zero_count |-> CountOf(non_null, 0),
             negative_count |->
                 Cardinality({i \in DOMAIN non_null : non_null[i] < 0}),
             positive_count |->
                 Cardinality({i \in DOMAIN non_null : non_null[i] > 0})]
        Spread(non_null, var) ==
            IF var = None THEN Raised
            ELSE Ok(Stats(non_null, Len(non_null), Mean(non_null), var[1],
                          Quantile(non_null, 1, 4), Quantile(non_null, 3, 4),
                          Min(non_null), Max(non_null)))
        Numeric(non_null) ==
            IF Len(non_null) = 0
            THEN Ok(EmptyNumericStats(NullCount(col.vals)))
            ELSE Spread(non_null, Var(non_null))
    IN Numeric(DropNulls(col.vals))

\* the first (up to) ten rows of the value-frequency table, as
\* (str(value), freq, pct) triples
TopValues(dtype, non_null, order) ==
    LET k == IF Len(order) < 10 THEN Len(order) ELSE 10
    IN [i \in 1..k |->
           <<PyStr(dtype, order[i]), CountOf(non_null, order[i]),
             Rat(CountOf(non_null, order[i]) * 100, Len(non_null))>>]

\* StatisticsAnalyzer._calculate_entropy: -sum(p * log2(p)) over the
\* positive counts, kept symbolic as the counts and their total
CalculateEntropy(counts, total) ==
    IF total = 0 THEN [counts |-> <<>>, total |-> 0]
    ELSE [counts |-> SelectSeq(counts, LAMBDA c : c > 0), total |-> total]

\* StatisticsAnalyzer._analyze_categorical
AnalyzeCategorical(col, order) ==
    LET Frequencies(non_null, count, unique_count, mode_frequency) ==
            IF count = 0
            THEN Ok([type |-> "CategoricalStats", count |-> 0,
                     null_count |-> NullCount(col.vals), unique_count |-> 0,
                     mode |-> None, mode_frequency |-> 0,
                     mode_percentage |-> Zero, top_values |-> <<>>,
                     entropy |-> CalculateEntropy(<<>>, 0),
                     is_unique |-> FALSE])
            ELSE Ok([type |-> "CategoricalStats", count |-> count,
                     null_count |-> NullCount(col.vals),
                     unique_count |-> unique_count,
                     mode |-> IF Len(order) > 0
                              THEN <<PyStr(col.dtype, order[1])>> ELSE None,
                     mode_frequency |-> mode_frequency,
                     mode_percentage |->
                         IF Len(order) > 0
                         THEN Rat(mode_frequency * 100, count) ELSE Zero,
                     top_values |-> TopValues(col.dtype, non_null, order),
                     entropy |-> CalculateEntropy(
                         [i \in 1..Len(order) |-> CountOf(non_null, order[i])],
                         count),
                     is_unique |-> (unique_count = count)])
        Counted(non_null) ==
            Frequencies(non_null, Len(non_null), NUnique(non_null),
                        IF Len(order) > 0
                        THEN CountOf(non_null, order[1]) ELSE 0)
    IN Counted(DropNulls(col.vals))

\* StatisticsAnalyzer._analyze_datetime (values are day numbers)
AnalyzeDatetime(col, order) ==
    LET Datetime(non_null) ==
            IF Len(non_null) = 0
            THEN Ok([type |-> "DatetimeStats", count |-> 0,
                     null_count |-> NullCount(col.vals), min |-> None,
                     max |-> None, range_days |-> None, mode |-> None,
                     unique_count |-> 0])
            ELSE Ok([type |-> "DatetimeStats", count |-> Len(non_null),
                     null_count |-> NullCount(col.vals),
                     min |-> <<Min(non_null)>>, max |-> <<Max(non_null)>>,
                     range_days |-> <<Max(non_null) - Min(non_null)>>,
                     mode |-> CalculateMode(non_null, order),
                     unique_count |-> NUnique(non_null)])
    IN Datetime(DropNulls(col.vals))

\* _analyze_text without the count == 0 branch: float(lengths.mean()) of
\* no lengths is float(None)
AnalyzeTextUnguarded(col, order) ==
    LET Text(non_null, lengths) ==
            IF Len(non_null) = 0 \/ ~AnyIn({tString, tUtf8}, col.dtype)
            THEN Raised
            ELSE Ok([type |-> "TextStats", count |-> Len(non_null),
                     null_count |-> NullCount(col.vals),
                     unique_count |-> NUnique(non_null),
                     mode |-> IF Len(order) > 0
                              THEN <<PyStr(col.dtype, order[1])>> ELSE None,
                     avg_length |-> Mean(lengths),
                     min_length |-> Min(lengths),
                     max_length |-> Max(lengths),
                     empty_count |-> CountOf(lengths, 0),
                     top_values |-> TopValues(col.dtype, non_null, order)])
        Measured(non_null) ==
            Text(non_null, [i \in 1..Len(non_null) |-> Len(non_null[i])])
    IN Measured(DropNulls(col.vals))

\* StatisticsAnalyzer._analyze_text; the .str namespace raises on a series
\* that is not of a string dtype
AnalyzeText(col, order) ==
    LET Text(non_null, lengths) ==
            IF Len(non_null) = 0
            THEN Ok([type |-> "TextStats", count |-> 0,
                     null_count |-> NullCount(col.vals), unique_count |-> 0,
                     mode |-> None, avg_length |-> Zero, min_length |-> 0,
                     max_length |-> 0, empty_count |-> 0,
                     top_values |-> <<>>])
            ELSE IF ~AnyIn({tString, tUtf8}, col.dtype) THEN Raised
            ELSE Ok([type |-> "TextStats", count |-> Len(non_null),
                     null_count |-> NullCount(col.vals),
                     unique_count |-> NUnique(non_null),
                     mode |-> IF Len(order) > 0
                              THEN <<PyStr(col.dtype, order[1])>> ELSE None,
                     avg_length |-> Mean(lengths),
                     min_length |-> Min(lengths),
                     max_length |-> Max(lengths),
                     empty_count |-> CountOf(lengths, 0),
                     top_values |-> TopValues(col.dtype, non_null, order)])
        Measured(non_null) ==
            Text(non_null, [i \in 1..Len(non_null) |-> Len(non_null[i])])
    IN Measured(DropNulls(col.vals))

\* StatisticsAnalyzer.analyze_column
AnalyzeColumn(col, order) ==
    IF IsNumeric(col.dtype) THEN AnalyzeNumeric(col, order)
    ELSE IF IsDatetime(col.dtype) THEN AnalyzeDatetime(col, order)
    ELSE IF IsCategorical(col) THEN AnalyzeCategorical(col, order)
    ELSE AnalyzeText(col, order)

\* the possible value-frequency tables of all columns of the frame
RECURSIVE OrdersFrom(_, _)
OrdersFrom(df, i) ==
    IF i > Len(df) THEN {<<>>}
    ELSE {<<o>> \o rest : o \in ValueOrders(DropNulls(df[i].vals)),
                          rest \in OrdersFrom(df, i + 1)}

FrameOrders(df) == OrdersFrom(df, 1)

\* StatisticsAnalyzer.analyze_all: the loop has no handler, so the first
\* column that raises ends the call
StatisticsAnalyzeAll(df, orders) ==
    LET All(stats) ==
            IF \E i \in 1..Len(df) : stats[i].exc THEN Raised
            ELSE Ok([c \in Range(Columns(df)) |-> stats[ColIndex(df, c)].val])
    IN All([i \in 1..Len(df) |-> AnalyzeColumn(df[i], orders[i])])

\* StatisticsAnalyzer.get_summary
StatisticsGetSummary(df, orders) ==
    LET Summary(all) ==
            IF all.exc THEN Raised
            ELSE Ok([total_columns |-> Cardinality(DOMAIN all.val),
                     numeric_columns |->
                         SelectSeq(Columns(df),
                             LAMBDA c : all.val[c].type = "NumericStats"),
                     categorical_columns |->
                         SelectSeq(Columns(df),
                             LAMBDA c : all.val[c].type = "CategoricalStats"),
                     datetime_columns |->
                         SelectSeq(Columns(df),
                             LAMBDA c : all.val[c].type = "DatetimeStats"),
                     text_columns |->
                         SelectSeq(Columns(df),
                             LAMBDA c : all.val[c].type = "TextStats"),
                     statistics |-> all.val])
    IN Summary(StatisticsAnalyzeAll(df, orders))

(***************************************************************************)
(* OutlierDetector (src/datatui/core/outliers.py).                         *)
(***************************************************************************)
\* default thresholds of detect_all
ZscoreThreshold == Rat(3, 1)
MadThreshold == Rat(35, 10)
\* the factors of the IQR fence and of the modified z-score
\* fences at twice the distance
IqrFactorDouble == Rat(3, 1)
IqrFactor == Rat(15, 10)
MadScale == Rat(6745, 10000)
\* caps on the retained index lists and sample values
IndexCap == 1000
ValueCap == 100

\* OutlierDetector._get_numeric_columns
GetNumericColumns(df) ==
    SelectSeq(Columns(df),
              LAMBDA c : AnyIn({tInt, tUInt, tFloat}, df[ColIndex(df, c)].dtype))

\* OutlierDetector._detect_iqr_outliers: (indices, lower_bound, upper_bound)
DetectIqrOutliers(series) ==
    LET Fenced(lower_bound, upper_bound) ==
            <<IndicesFrom([i \in 1..Len(series) |->
                              \/ RLt(RInt(series[i]), lower_bound)
                              \/ RLt(upper_bound, RInt(series[i]))], 0),
              lower_bound, upper_bound>>
        Fences(q1, q3, iqr) ==
            Fenced(RSub(q1, RMul(IqrFactor, iqr)),
                   RAdd(q3, RMul(IqrFactor, iqr)))
        Quartiles(q1, q3) == Fences(q1, q3, RSub(q3, q1))
    IN Quartiles(Quantile(series, 1, 4), Quantile(series, 3, 4))

\* OutlierDetector._detect_zscore_outliers; float(None) raises TypeError
\* when std() of a single value is None.  |x - mean| / std > t is decided
\* on the squares.
DetectZscoreOutliers(series, threshold) ==
    LET Scored(mean, var) ==
            IF var.n = 0 THEN Ok(<<>>)
            ELSE Ok(IndicesFrom(
                     [i \in 1..Len(series) |->
                         RLt(RMul(RMul(threshold, threshold), var),
                             RPow(RSub(RInt(series[i]), mean), 2))], 0))
        Spread(var) ==
            IF var = None THEN Raised ELSE Scored(Mean(series), var[1])
    IN Spread(Var(series))

\* OutlierDetector._detect_mad_outliers, on doubled values so that the
\* median and the deviations stay integers
DetectMadOutliers(series, threshold) ==
    LET Flagged(deviations, mad) ==
            IF mad.n = 0 THEN <<>>
            ELSE IndicesFrom(
                     [i \in 1..Len(series) |->
                         RLt(RMul(threshold, mad),
                             RMul(MadScale, Rat(deviations[i], 2)))], 0)
        Deviating(deviations) ==
            Flagged(deviations, RDivInt(Median(deviations), 2))
        Doubled(x) == Abs(x.n * (2 \div x.d))
        Around(median) ==
            Deviating([i \in 1..Len(series) |->
                          Doubled(RSub(RInt(series[i]), median))])
    IN Around(Median(series))

\* sorted(list(a_set)) of a set of indices below n
SortedOf(S, n) == SelectSeq([i \in 1..n |-> i - 1], LAMBDA i : i \in S)

\* the union of the index lists as they are returned, cut to IndexCap
RetainedOutlierIndices(iqr_outliers, zscore_outliers, mad_outliers) ==
    Range(Take(iqr_outliers, IndexCap))
        \cup Range(Take(zscore_outliers, IndexCap))
        \cup Range(Take(mad_outliers, IndexCap))

\* all_outlier_indices = set(iqr_outliers + zscore_outliers + mad_outliers)
AllOutlierIndices(iqr_outliers, zscore_outliers, mad_outliers) ==
    Range(iqr_outliers) \cup Range(zscore_outliers) \cup Range(mad_outliers)

\* OutlierDetector._detect_column_outliers
DetectColumnOutliers(col, zscore_threshold, mad_threshold) ==
    LET Info(series, iqr, zscore, mad_outliers, all_outlier_indices,
             outlier_values) ==
            [column_name |-> col.name, total_count |-> Len(series),
             iqr_outliers |-> Take(iqr[1], IndexCap),
             iqr_outlier_count |-> Len(iqr[1]),
             iqr_lower_bound |-> iqr[2], iqr_upper_bound |-> iqr[3],
             zscore_outliers |-> Take(zscore.val, IndexCap),
             zscore_outlier_count |-> Len(zscore.val),
             zscore_threshold |-> zscore_threshold,
             mad_outliers |-> Take(mad_outliers, IndexCap),
             mad_outlier_count |-> Len(mad_outliers),
             mad_threshold |-> mad_threshold,
             outlier_percentage |->
                 IF Len(series) > 0
                 THEN Rat(Cardinality(all_outlier_indices) * 100, Len(series))
                 ELSE Zero,
             outlier_values |-> Take(outlier_values, ValueCap)]
        Valued(series, picked) ==
            [k \in 1..Len(picked) |-> RInt(series[picked[k] + 1])]
        Picked(series, iqr, zscore, mad_outliers, all_outlier_indices) ==
            Info(series, iqr, zscore, mad_outliers, all_outlier_indices,
                 Valued(series,
                        SelectSeq(Take(SortedOf(all_outlier_indices,
                                                Len(series)), ValueCap),
                                  LAMBDA idx : idx < Len(series))))
        Detected(series, iqr, zscore, mad_outliers) ==
            IF Len(series) = 0
            THEN Ok([column_name |-> col.name, total_count |-> 0,
                     iqr_outliers |-> <<>>, iqr_outlier_count |-> 0,
                     iqr_lower_bound |-> Zero, iqr_upper_bound |-> Zero,
                     zscore_outliers |-> <<>>, zscore_outlier_count |-> 0,
                     zscore_threshold |-> zscore_threshold,
                     mad_outliers |-> <<>>, mad_outlier_count |-> 0,
                     mad_threshold |-> mad_threshold,
                     outlier_percentage |-> Zero, outlier_values |-> <<>>])
            ELSE IF zscore.exc THEN Raised
            ELSE Ok(Picked(series, iqr, zscore, mad_outliers,
                           AllOutlierIndices(iqr[1], zscore.val,
                                             mad_outliers)))
        Series(series) ==
            Detected(series, DetectIqrOutliers(series),
                     DetectZscoreOutliers(series, zscore_threshold),
                     DetectMadOutliers(series, mad_threshold))
    IN Series(DropNulls(col.vals))

\* OutlierDetector.detect_all: the loop has no handler, so the first
\* numeric column that raises ends the call
DetectAll(df) ==
    LET All(numeric_cols, info) ==
            IF \E k \in 1..Len(numeric_cols) : info[k].exc THEN Raised
            ELSE Ok([c \in Range(numeric_cols) |->
                        info[CHOOSE k \in 1..Len(numeric_cols) :
                                 numeric_cols[k] = c].val])
        Each(numeric_cols) ==
            All(numeric_cols,
                [k \in 1..Len(numeric_cols) |->
                    DetectColumnOutliers(df[ColIndex(df, numeric_cols[k])],
                                         ZscoreThreshold, MadThreshold)])
    IN Each(GetNumericColumns(df))

\* stable insertion into a sequence of (column, percentage) pairs sorted by
\* descending percentage
RECURSIVE InsertByPct(_, _)
InsertByPct(x, s) ==
    IF s = <<>> THEN <<x>>
    ELSE IF RLt(Head(s)[2], x[2]) THEN <<x>> \o s
    ELSE <<Head(s)>> \o InsertByPct(x, Tail(s))

RECURSIVE SortByPct(_)
SortByPct(s) ==
    IF s = <<>> THEN <<>>
    ELSE InsertByPct(s[Len(s)], SortByPct(SubSeq(s, 1, Len(s) - 1)))

\* get_outlier_summary that also lists the columns flagged by the MAD method
GetOutlierSummaryWithMad(df) ==
    LET Detections(info) ==
            Cardinality(Range(info.iqr_outliers)
                        \cup Range(info.zscore_outliers)
                        \cup Range(info.mad_outliers))
        Summary(outliers, numeric_cols, columns_with_outliers, high) ==
            [total_numeric_columns |-> Cardinality(DOMAIN outliers),
             columns_with_outliers |-> columns_with_outliers,
             columns_with_outliers_count |-> Len(columns_with_outliers),
             total_outlier_detections |->
                 SumSeq([k \in 1..Len(numeric_cols) |->
                            Detections(outliers[numeric_cols[k]])]),
             high_outlier_columns |->
                 SortByPct([k \in 1..Len(high) |->
                     <<high[k], outliers[high[k]].outlier_percentage>>]),
             outliers_by_column |-> outliers]
        Selected(outliers, numeric_cols) ==
            Summary(outliers, numeric_cols,
                    SelectSeq(numeric_cols,
                        LAMBDA c : \/ outliers[c].iqr_outlier_count > 0
                                   \/ outliers[c].zscore_outlier_count > 0
                                   \/ outliers[c].mad_outlier_count > 0),
                    SelectSeq(numeric_cols,
                        LAMBDA c : RLt(RInt(5),
                                       outliers[c].outlier_percentage)))
        Detected(all) ==
            IF all.exc THEN Raised
            ELSE Ok(Selected(all.val, GetNumericColumns(df)))
    IN Detected(DetectAll(df))

\* OutlierDetector.get_outlier_summary (it runs detect_all itself)
GetOutlierSummary(df) ==
    LET Detections(info) ==
            Cardinality(Range(info.iqr_outliers)
                        \cup Range(info.zscore_outliers)
                        \cup Range(info.mad_outliers))
        Summary(outliers, numeric_cols, columns_with_outliers, high) ==
            [total_numeric_columns |-> Cardinality(DOMAIN outliers),
             columns_with_outliers |-> columns_with_outliers,
             columns_with_outliers_count |-> Len(columns_with_outliers),
             total_outlier_detections |->
                 SumSeq([k \in 1..Len(numeric_cols) |->
                            Detections(outliers[numeric_cols[k]])]),
             high_outlier_columns |->
                 SortByPct([k \in 1..Len(high) |->
                     <<high[k], outliers[high[k]].outlier_percentage>>]),
             outliers_by_column |-> outliers]
        Selected(outliers, numeric_cols) ==
            Summary(outliers, numeric_cols,
                    SelectSeq(numeric_cols,
                        LAMBDA c : \/ outliers[c].iqr_outlier_count > 0
                                   \/ outliers[c].zscore_outlier_count > 0),
                    SelectSeq(numeric_cols,
                        LAMBDA c : RLt(RInt(5),
                                       outliers[c].outlier_percentage)))
        Detected(all) ==
            IF all.exc THEN Raised
            ELSE Ok(Selected(all.val, GetNumericColumns(df)))
    IN Detected(DetectAll(df))

\* OutlierDetector.detect_multivariate_outliers.  The isolation forest's
\* predictions are not computed: a fitted result records only the rows it
\* was fitted on.
DetectMultivariateOutliers(df, columns, contamination) ==
    LET Full(r) == \A c \in Range(columns) : df[ColIndex(df, c)].vals[r] # Null
        subset_rows == Cardinality({r \in 1..NumRows(df) : Full(r)})
        Empty(total) == [total_count |-> total, outlier_indices |-> <<>>,
                         outlier_count |-> 0, outlier_percentage |-> Zero,
                         contamination |-> contamination, fitted |-> FALSE]
    IN IF Len(columns) = 0 THEN Empty(NumRows(df))
       ELSE IF subset_rows = 0 THEN Empty(0)
       ELSE IF subset_rows < 2 THEN Empty(subset_rows)
       ELSE [total_count |-> subset_rows, contamination |-> contamination,
             fitted |-> TRUE]

(***************************************************************************)
(* CorrelationAnalyzer and DistributionAnalyzer, as far as the coordinator *)
(* needs them: which columns and pairs are reported.  Correlation values,  *)
(* p-values, histograms, test statistics and moments are not computed.     *)
(***************************************************************************)
\* CorrelationAnalyzer._get_categorical_columns
GetCategoricalColumns(df) ==
    SelectSeq(Columns(df),
        LAMBDA c :
            LET col == df[ColIndex(df, c)]
                series == DropNulls(col.vals)
            IN /\ AnyIn({tCategorical, tUtf8, tString}, col.dtype)
               /\ Len(series) > 0
               /\ RLe(Rat(NUnique(series), Len(series)), Rat(1, 10)))

\* the rows in which both columns are non-null (select + drop_nulls)
JointRows(df, c1, c2) ==
    {r \in 1..NumRows(df) : /\ df[ColIndex(df, c1)].vals[r] # Null
                            /\ df[ColIndex(df, c2)].vals[r] # Null}

\* CorrelationAnalyzer._pearson_correlation returns a value (not None)
PearsonAvailable(df, c1, c2) ==
    LET rows == JointRows(df, c1, c2)
        Distinct1(c) == Cardinality({df[ColIndex(df, c)].vals[r] : r \in rows})
    IN /\ Cardinality(rows) >= 2
       /\ Distinct1(c1) > 1
       /\ Distinct1(c2) > 1

\* the (col1, col2) keys of _calculate_pearson
PearsonPairs(df) ==
    LET cols == GetNumericColumns(df)
    IN {p \in {<<cols[i], cols[j]>> : i, j \in 1..Len(cols)} :
            /\ ColIndex(df, p[1]) < ColIndex(df, p[2])
            /\ PearsonAvailable(df, p[1], p[2])}

(***************************************************************************)
(* The correlation matrix.  A coefficient r is kept as its sign and its    *)
(* square, which are exact: r = sign * sqrt(sq).                           *)
(***************************************************************************)
Coefficient(sign, sq) == [sign |-> sign, sq |-> sq]
\* the entries 1.0 and 0.0 of np.eye
UnitCoefficient == Coefficient(1, RInt(1))
ZeroCoefficient == Coefficient(0, RInt(0))

SignOf(k) == IF k > 0 THEN 1 ELSE IF k < 0 THEN -1 ELSE 0

\* the values of column c in the rows without a null in c1 or c2, in row
\* order: df.select([c1, c2]).drop_nulls()[c].to_numpy()
CleanValues(df, c1, c2, c) ==
    LET Clean(rows) ==
            [k \in 1..Len(rows) |-> df[ColIndex(df, c)].vals[rows[k]][1]]
    IN Clean(SelectSeq([r \in 1..NumRows(df) |-> r],
                       LAMBDA r : r \in JointRows(df, c1, c2)))

\* n times the sum of the products minus the product of the sums: n^2
\* times the covariance of x and y (the variance, for y = x)
Codeviation(x, y) ==
    Len(x) * SumSeq([k \in 1..Len(x) |-> x[k] * y[k]]) - SumSeq(x) * SumSeq(y)

\* scipy.stats.pearsonr(x, y)[0] for x and y that are not constant
Pearsonr(x, y) ==
    Coefficient(SignOf(Codeviation(x, y)),
                Rat(Codeviation(x, y) * Codeviation(x, y),
                    Codeviation(x, x) * Codeviation(y, y)))

\* twice the average rank of each value (scipy.stats.rankdata, 'average')
DoubledRanks(x) ==
    [k \in 1..Len(x) |->
        2 * Cardinality({j \in 1..Len(x) : x[j] < x[k]})
            + Cardinality({j \in 1..Len(x) : x[j] = x[k]}) + 1]

\* CorrelationAnalyzer._pearson_correlation: None, or the coefficient
PearsonCorrelation(df, col1, col2) ==
    LET Of(x, y) ==
            IF Len(x) < 2 THEN None
            ELSE IF Codeviation(x, x) = 0 \/ Codeviation(y, y) = 0 THEN None
            ELSE <<Pearsonr(x, y)>>
    IN Of(CleanValues(df, col1, col2, col1),
          CleanValues(df, col1, col2, col2))

\* CorrelationAnalyzer._spearman_correlation: None, or the coefficient of
\* the ranks
SpearmanCorrelation(df, col1, col2) ==
    LET Of(x, y) ==
            IF Len(x) < 2 THEN None
            ELSE IF NUnique(x) = 1 \/ NUnique(y) = 1 THEN None
            ELSE <<Pearsonr(DoubledRanks(x), DoubledRanks(y))>>
    IN Of(CleanValues(df, col1, col2, col1),
          CleanValues(df, col1, col2, col2))

Methods == {"pearson", "spearman", "kendall"}

\* the correlation of one pair in get_correlation_matrix
PairCorrelation(df, method, col1, col2) ==
    IF method = "pearson" THEN PearsonCorrelation(df, col1, col2)
    ELSE IF method = "spearman" THEN SpearmanCorrelation(df, col1, col2)
    ELSE None

\* get_correlation_matrix that writes matrix[i, j] only
GetCorrelationMatrixUpper(df, method) ==
    LET Entry(corr) == IF corr = None THEN ZeroCoefficient ELSE corr[1]
        Matrix(numeric_cols) ==
            [i \in 1..Len(numeric_cols) |->
                [j \in 1..Len(numeric_cols) |->
                    IF i = j THEN UnitCoefficient
                    ELSE IF i < j
                    THEN Entry(PairCorrelation(df, method, numeric_cols[i],
                                               numeric_cols[j]))
                    ELSE ZeroCoefficient]]
        Result(numeric_cols) ==
            IF numeric_cols = <<>> THEN [columns |-> <<>>, matrix |-> <<>>]
            ELSE [columns |-> numeric_cols, matrix |-> Matrix(numeric_cols)]
    IN Result(GetNumericColumns(df))

\* CorrelationAnalyzer.get_correlation_matrix: np.eye(n), and for i < j
\* matrix[i, j] and matrix[j, i] set to the correlation of (col_i, col_j)
\* unless it is None
GetCorrelationMatrix(df, method) ==
    LET Entry(corr) == IF corr = None THEN ZeroCoefficient ELSE corr[1]
        Matrix(numeric_cols) ==
            [i \in 1..Len(numeric_cols) |->
                [j \in 1..Len(numeric_cols) |->
                    IF i = j THEN UnitCoefficient
                    ELSE IF i < j
                    THEN Entry(PairCorrelation(df, method, numeric_cols[i],
                                               numeric_cols[j]))
                    ELSE Entry(PairCorrelation(df, method, numeric_cols[j],
                                               numeric_cols[i]))]]
        Result(numeric_cols) ==
            IF numeric_cols = <<>> THEN [columns |-> <<>>, matrix |-> <<>>]
            ELSE [columns |-> numeric_cols, matrix |-> Matrix(numeric_cols)]
    IN Result(GetNumericColumns(df))

\* CorrelationAnalyzer.analyze_all, reduced to the columns and pearson keys
CorrelationsAnalyzeAll(df) ==
    [pearson |-> PearsonPairs(df),
     numeric_columns |-> GetNumericColumns(df),
     categorical_columns |-> GetCategoricalColumns(df)]

\* the default of the `bins` arguments
DefaultBins == 30

\* np.histogram(data, bins = bins)[0]: `bins` bins of equal width over
\* [min, max], the last of them closed; when all values are equal the range
\* is [min - 1/2, max + 1/2]
HistogramCounts(data, bins) ==
    LET Bin(x, first, last) ==
            IF first = last THEN bins \div 2
            ELSE IF x = last THEN bins - 1
            ELSE ((x - first) * bins) \div (last - first)
        Counts(first, last) ==
            [b \in 1..bins |->
                Cardinality({i \in 1..Len(data) :
                                Bin(data[i], first, last) = b - 1})]
    IN Counts(Min(data), Max(data))

\* DistributionAnalyzer._calculate_histogram, reduced to the counts
CalculateHistogram(series, bins) ==
    [counts |-> HistogramCounts(series, bins), total_count |-> Len(series)]

\* DistributionAnalyzer._analyze_column, reduced to the fields that do not
\* depend on scipy; `normal` is the outcome of the normality vote
DistributionAnalyzeColumn(col, bins, normal) ==
    LET series == DropNulls(col.vals)
    IN IF Len(series) = 0
       THEN [column_name |-> col.name,
             histogram |-> [counts |-> <<>>, total_count |-> 0],
             kde_available |-> FALSE,
             is_normal |-> FALSE, quartiles |-> <<>>]
       ELSE [column_name |-> col.name,
             histogram |-> CalculateHistogram(series, bins),
             kde_available |-> (Len(series) > 10),
             is_normal |-> (IF Len(series) < 3 THEN FALSE ELSE normal),
             quartiles |-> <<RInt(Min(series)), Quantile(series, 1, 4),
                             Quantile(series, 1, 2), Quantile(series, 3, 4),
                             RInt(Max(series))>>]

\* DistributionAnalyzer.analyze_all
DistributionsAnalyzeAll(df, bins, normal) ==
    [c \in Range(GetNumericColumns(df)) |->
        DistributionAnalyzeColumn(df[ColIndex(df, c)], bins, normal[c])]

\* the four normality tests in the order in which they are tried, and what
\* a test that is tried can do: raise, accept or reject normality
TestNames ==
    <<"shapiro_wilk", "anderson_darling", "dagostino_pearson",
      "kolmogorov_smirnov">>
TestOutcomes == {"raised", "normal", "rejected"}
\* sample sizes of _test_normality
MinTestSamples == 3
ShapiroMaxSamples == 5000
DagostinoMinSamples == 8

\* the tests that _test_normality tries on n values: the keys of results
TriedTests(n) ==
    {"anderson_darling", "kolmogorov_smirnov"}
        \cup (IF n <= ShapiroMaxSamples THEN {"shapiro_wilk"} ELSE {})
        \cup (IF n >= DagostinoMinSamples THEN {"dagostino_pearson"} ELSE {})

\* _test_normality with total_tests counting the tests that raised too
TestNormalityCountingRaised(n, outcome) ==
    LET Counted(tried, normal_votes, total_tests) ==
            [k \in tried \cup {"is_normal", "normal_test_count",
                               "normal_votes"} |->
                IF k = "is_normal"
                THEN (IF total_tests > 0 THEN 2 * normal_votes >= total_tests
                      ELSE FALSE)
                ELSE IF k = "normal_test_count" THEN total_tests
                ELSE IF k = "normal_votes" THEN normal_votes
                ELSE IF outcome[k] = "raised" THEN None
                ELSE <<[is_normal |-> outcome[k] = "normal"]>>]
        Tried(tried) ==
            Counted(tried,
                    Cardinality({t \in tried : outcome[t] = "normal"}),
                    Cardinality(tried))
    IN IF n < MinTestSamples
       THEN [is_normal |-> FALSE, reason |-> "insufficient_data"]
       ELSE Tried(TriedTests(n))

\* DistributionAnalyzer._test_normality on a series of n values;
\* outcome[t] is what test t does if it is tried.  normal_votes / total_tests
\* >= 0.5 is decided as 2 * normal_votes >= total_tests.
TestNormality(n, outcome) ==
    LET Counted(tried, normal_votes, total_tests) ==
            [k \in tried \cup {"is_normal", "normal_test_count",
                               "normal_votes"} |->
                IF k = "is_normal"
                THEN (IF total_tests > 0 THEN 2 * normal_votes >= total_tests
                      ELSE FALSE)
                ELSE IF k = "normal_test_count" THEN total_tests
                ELSE IF k = "normal_votes" THEN normal_votes
                ELSE IF outcome[k] = "raised" THEN None
                ELSE <<[is_normal |-> outcome[k] = "normal"]>>]
        Tried(tried) ==
            Counted(tried,
                    Cardinality({t \in tried : outcome[t] = "normal"}),
                    Cardinality({t \in tried : outcome[t] # "raised"}))
    IN IF n < MinTestSamples
       THEN [is_normal |-> FALSE, reason |-> "insufficient_data"]
       ELSE Tried(TriedTests(n))

\* distributions.test_normality(df, column): None for a column that is
\* absent or not numeric
TestNormalityOf(df, column, outcome) ==
    IF column \notin Range(Columns(df)) THEN None
    ELSE IF ~AnyIn({tInt, tUInt, tFloat}, df[ColIndex(df, column)].dtype)
    THEN None
    ELSE <<TestNormality(Len(DropNulls(df[ColIndex(df, column)].vals)),
                         outcome)>>

\* what scipy.stats.skew and scipy.stats.kurtosis return for data without
\* variance: nan in current releases, 0.0 (and 0.0 - 3) in older ones
Degenerate == {"nan", "zero"}
NaN == [nan |-> TRUE]

\* the k-th central moment of the data, as scipy.stats.moment computes it
Moment(data, k) == RDivInt(SumPowDev(data, Mean(data), k), Len(data))

\* float(stats.skew(data)): m3 / m2 ** 1.5
StatsSkew(data, degenerate) ==
    LET Given(m2) ==
            IF m2.n = 0
            THEN (IF degenerate = "nan" THEN NaN ELSE SurdZero)
            ELSE Surd(Moment(data, 3), m2, 3)
    IN Given(Moment(data, 2))

\* float(stats.kurtosis(data)): m4 / m2 ** 2 - 3
StatsKurtosis(data, degenerate) ==
    LET Given(m2) ==
            IF m2.n = 0
            THEN (IF degenerate = "nan" THEN NaN ELSE RInt(0 - 3))
            ELSE RSub(RDiv(Moment(data, 4), RMul(m2, m2)), RInt(3))
    IN Given(Moment(data, 2))

\* comparisons of floats: every comparison with nan is False.  The square
\* of num / sqrt(var) ** p is the fraction num^2 / var^p.
SurdSq(x) == RDiv(RMul(x.num, x.num), RPow(x.var, x.p))
SurdAbsLt(x, t) == x # NaN /\ RLt(SurdSq(x), RMul(t, t))
\* x > t and x < -t for t >= 0
SurdGt(x, t) == x # NaN /\ x.num.n > 0 /\ RLt(RMul(t, t), SurdSq(x))
SurdLtNeg(x, t) == x # NaN /\ x.num.n < 0 /\ RLt(RMul(t, t), SurdSq(x))
FloatLt(x, y) == x # NaN /\ y # NaN /\ RLt(x, y)
FloatAbsLt(x, t) == x # NaN /\ RLt(RNeg(t), x) /\ RLt(x, t)

\* cv < 0.1 for cv = np.std(data) / np.mean(data) if np.mean(data) != 0
\* else 0: a mean that is zero or negative makes cv <= 0
CvBelowTenth(data) ==
    LET Given(mean) ==
            IF mean.n <= 0 THEN TRUE
            ELSE RLt(Moment(data, 2), RDivInt(RMul(mean, mean), 100))
    IN Given(Mean(data))

\* DistributionAnalyzer._detect_distribution_type with the rule for
\* discrete data tried before the rules for the tails
DetectDistributionTypeDiscreteFirst(data, is_normal, degenerate) ==
    LET Rules(skew, kurt) ==
            IF SurdAbsLt(skew, Rat(1, 2)) /\ FloatAbsLt(kurt, Rat(1, 2))
            THEN "approximately_normal"
            ELSE IF SurdGt(skew, RInt(1)) THEN "right_skewed"
            ELSE IF SurdLtNeg(skew, RInt(1)) THEN "left_skewed"
            ELSE IF NUnique(data) < 10 THEN "discrete"
            ELSE IF FloatLt(RInt(3), kurt) THEN "heavy_tailed"
            ELSE IF FloatLt(kurt, RInt(0 - 1)) THEN "light_tailed"
            ELSE IF CvBelowTenth(data) THEN "uniform"
            ELSE IF (\A i \in DOMAIN data : data[i] >= 0)
                    /\ SurdGt(skew, Rat(1, 2))
            THEN "exponential"
            ELSE "unknown"
    IN IF Len(data) < 10 THEN "unknown"
       ELSE IF is_normal THEN "normal"
       ELSE Rules(StatsSkew(data, degenerate), StatsKurtosis(data, degenerate))

\* DistributionAnalyzer._detect_distribution_type; is_normal is
\* normality_tests.get('is_normal', False)
DetectDistributionType(data, is_normal, degenerate) ==
    LET Rules(skew, kurt) ==
            IF SurdAbsLt(skew, Rat(1, 2)) /\ FloatAbsLt(kurt, Rat(1, 2))
            THEN "approximately_normal"
            ELSE IF SurdGt(skew, RInt(1)) THEN "right_skewed"
            ELSE IF SurdLtNeg(skew, RInt(1)) THEN "left_skewed"
            ELSE IF FloatLt(RInt(3), kurt) THEN "heavy_tailed"
            ELSE IF FloatLt(kurt, RInt(0 - 1)) THEN "light_tailed"
            ELSE IF NUnique(data) < 10 THEN "discrete"
            ELSE IF CvBelowTenth(data) THEN "uniform"
            ELSE IF (\A i \in DOMAIN data : data[i] >= 0)
                    /\ SurdGt(skew, Rat(1, 2))
            THEN "exponential"
            ELSE "unknown"
    IN IF Len(data) < 10 THEN "unknown"
       ELSE IF is_normal THEN "normal"
       ELSE Rules(StatsSkew(data, degenerate), StatsKurtosis(data, degenerate))

\* DistributionAnalyzer._calculate_skewness and _calculate_kurtosis
DistributionSkewness(data, degenerate) ==
    IF Len(data) < 3 THEN SurdZero ELSE StatsSkew(data, degenerate)
DistributionKurtosis(data, degenerate) ==
    IF Len(data) < 4 THEN Zero ELSE StatsKurtosis(data, degenerate)

\* DistributionAnalyzer._analyze_column: the normality tests, the type and
\* the moments of the DistributionInfo of a column
AnalyzeDistributionColumn(col, outcome, degenerate) ==
    LET Info(series, normality_tests) ==
            [column_name |-> col.name,
             kde_available |-> (Len(series) > 10),
             normality_tests |-> normality_tests,
             distribution_type |->
                 DetectDistributionType(series, normality_tests.is_normal,
                                        degenerate),
             skewness |-> DistributionSkewness(series, degenerate),
             kurtosis |-> DistributionKurtosis(series, degenerate),
             is_normal |-> normality_tests.is_normal]
        NonEmpty(series) == Info(series, TestNormality(Len(series), outcome))
        Analyzed(series) ==
            IF Len(series) = 0
            THEN [column_name |-> col.name, kde_available |-> FALSE,
                  normality_tests |-> <<>>, distribution_type |-> "unknown",
                  skewness |-> SurdZero, kurtosis |-> Zero,
                  is_normal |-> FALSE]
            ELSE NonEmpty(series)
    IN Analyzed(DropNulls(col.vals))

\* the possible outcomes of the normality votes: one per numeric column
\* with enough values for the tests to run
NormalVotes(df) ==
    LET Tested(c) == Len(DropNulls(df[ColIndex(df, c)].vals)) >= 3
        votes == [{c \in Range(GetNumericColumns(df)) : Tested(c)} -> BOOLEAN]
    IN {[c \in Range(GetNumericColumns(df)) |->
            IF Tested(c) THEN v[c] ELSE FALSE] : v \in votes}

(***************************************************************************)
(* DataAnalyzer (src/src/core/analyzer.py).  A method is a function of the *)
(* coordinator's state st = [cache, computed] that yields the new state    *)
(* and the outcome of the call:  [cache, computed, res].  `computed`       *)
(* counts, per kind, the results computed and stored since construction or *)
(* the last clear_cache.                                                   *)
(***************************************************************************)
Kinds == {"schema", "statistics", "missing", "outliers", "correlations",
          "distributions"}

\* row count from which analyze_outliers skips the multivariate detector
MultivariateRowLimit == 100000
\* contamination passed by analyze_outliers
Contamination == Rat(1, 10)

EmptyCache == [k \in {} |-> 0]
NoneComputed == [k \in Kinds |-> 0]

\* the result of a method that leaves the state alone
Return(st, res) == [cache |-> st.cache, computed |-> st.computed, res |-> res]

\* self._cache[kind] = result; return result
Store(st, kind, result) ==
    [cache |-> [k \in DOMAIN st.cache \cup {kind} |->
                   IF k = kind THEN result ELSE st.cache[k]],
     computed |-> [st.computed EXCEPT ![kind] = @ + 1],
     res |-> Ok(result)]

\* DataAnalyzer.analyze_schema
analyze_schema(st, df) ==
    IF "schema" \in DOMAIN st.cache THEN Return(st, Ok(st.cache["schema"]))
    ELSE Store(st, "schema", GetSchemaSummary(df))

\* DataAnalyzer.analyze_statistics
analyze_statistics(st, df, orders) ==
    LET Keep(result) == IF result.exc THEN Return(st, Raised)
                        ELSE Store(st, "statistics", result.val)
    IN IF "statistics" \in DOMAIN st.cache
       THEN Return(st, Ok(st.cache["statistics"]))
       ELSE Keep(StatisticsGetSummary(df, orders))

\* analyze_missing without the test for a stored entry
analyze_missing_recomputing(st, df) ==
    Store(st, "missing", MissingAnalyzerAnalyze(df))

\* DataAnalyzer.analyze_missing
analyze_missing(st, df) ==
    IF "missing" \in DOMAIN st.cache THEN Return(st, Ok(st.cache["missing"]))
    ELSE Store(st, "missing", MissingAnalyzerAnalyze(df))

\* analyze_outliers that answers every request with a new detection
analyze_outliers_uncached(st, df, skip_multivariate) ==
    LET Multivariate(numeric_cols) ==
            IF ~skip_multivariate
               /\ Len(numeric_cols) > 1
               /\ NumRows(df) < MultivariateRowLimit
            THEN <<DetectMultivariateOutliers(df, numeric_cols,
                                              Contamination)>>
            ELSE None
        Keep(univariate_outliers, summary) ==
            IF univariate_outliers.exc \/ summary.exc THEN Return(st, Raised)
            ELSE Store(st, "outliers",
                       [univariate |-> univariate_outliers.val,
                        multivariate |->
                            Multivariate(GetNumericColumns(df)),
                        summary |-> summary.val])
    IN Keep(DetectAll(df), GetOutlierSummary(df))

\* DataAnalyzer.analyze_outliers
analyze_outliers(st, df, skip_multivariate) ==
    LET Multivariate(numeric_cols) ==
            IF ~skip_multivariate
               /\ Len(numeric_cols) > 1
               /\ NumRows(df) < MultivariateRowLimit
            THEN <<DetectMultivariateOutliers(df, numeric_cols,
                                              Contamination)>>
            ELSE None
        Keep(univariate_outliers, summary) ==
            IF univariate_outliers.exc \/ summary.exc THEN Return(st, Raised)
            ELSE Store(st, "outliers",
                       [univariate |-> univariate_outliers.val,
                        multivariate |->
                            Multivariate(GetNumericColumns(df)),
                        summary |-> summary.val])
    IN IF "outliers" \in DOMAIN st.cache
       THEN Return(st, Ok(st.cache["outliers"]))
       ELSE Keep(DetectAll(df), GetOutlierSummary(df))

\* DataAnalyzer.analyze_correlations
analyze_correlations(st, df) ==
    IF "correlations" \in DOMAIN st.cache
    THEN Return(st, Ok(st.cache["correlations"]))
    ELSE Store(st, "correlations", CorrelationsAnalyzeAll(df))

\* analyze_distributions that answers every request with a new analysis
analyze_distributions_uncached(st, df, bins, normal) ==
    LET Keep(all) ==
            Store(st, "distributions",
                  [distributions |-> all,
                   summary |->
                       [total_numeric_columns |-> Cardinality(DOMAIN all),
                        normal_columns |->
                            SelectSeq(GetNumericColumns(df),
                                      LAMBDA c : all[c].is_normal)]])
    IN Keep(DistributionsAnalyzeAll(df, bins, normal))

\* DataAnalyzer.analyze_distributions
analyze_distributions(st, df, bins, normal) ==
    LET Keep(all) ==
            Store(st, "distributions",
                  [distributions |-> all,
                   summary |->
                       [total_numeric_columns |-> Cardinality(DOMAIN all),
                        normal_columns |->
                            SelectSeq(GetNumericColumns(df),
                                      LAMBDA c : all[c].is_normal)]])
    IN IF "distributions" \in DOMAIN st.cache
       THEN Return(st, Ok(st.cache["distributions"]))
       ELSE Keep(DistributionsAnalyzeAll(df, bins, normal))

\* DataAnalyzer.analyze_all: the six requests in order; an exception ends
\* the call and leaves the entries stored so far
analyze_all(st, df, skip_multivariate_outliers, orders, normal) ==
    LET Results(s1, s2, s3, s4, s5, s6) ==
            IF s2.res.exc THEN s2
            ELSE IF s4.res.exc THEN s4
            ELSE [cache |-> s6.cache, computed |-> s6.computed,
                  res |-> Ok([total_rows |-> NumRows(df),
                              total_columns |-> Len(df),
                              schema |-> s1.res.val,
                              statistics |-> s2.res.val,
                              missing |-> s3.res.val,
                              outliers |-> s4.res.val,
                              correlations |-> s5.res.val,
                              distributions |-> s6.res.val])]
        Distributions(s1, s2, s3, s4, s5) ==
            Results(s1, s2, s3, s4, s5, analyze_distributions(s5, df, DefaultBins, normal))
        Correlations(s1, s2, s3, s4) ==
            Distributions(s1, s2, s3, s4, analyze_correlations(s4, df))
        Outliers(s1, s2, s3) ==
            Correlations(s1, s2, s3,
                analyze_outliers(s3, df, skip_multivariate_outliers))
        Missing(s1, s2) == Outliers(s1, s2, analyze_missing(s2, df))
        Statistics(s1) == Missing(s1, analyze_statistics(s1, df, orders))
    IN Statistics(analyze_schema(st, df))

\* DataAnalyzer.get_quick_summary
get_quick_summary(st, df) ==
    LET Summary(s1, s2) ==
            [cache |-> s2.cache, computed |-> s2.computed,
             res |-> Ok([rows |-> NumRows(df),
                         columns |-> Len(df),
                         column_types |-> s1.res.val.type_distribution,
                         missing_percentage |->
                             s2.res.val.overall_missing_percentage,
                         complete_rows_percentage |->
                             s2.res.val.complete_rows_percentage])]
        Missing(s1) == Summary(s1, analyze_missing(s1, df))
    IN Missing(analyze_schema(st, df))

\* clear_cache that leaves the schema entry in place
clear_cache_keeping_schema(st) ==
    [cache |-> [k \in DOMAIN st.cache \cap {"schema"} |-> st.cache[k]],
     computed |-> NoneComputed, res |-> Ok(NoValue)]

\* DataAnalyzer.clear_cache
clear_cache(st) ==
    [cache |-> EmptyCache, computed |-> NoneComputed, res |-> Ok(NoValue)]

\* get_column_analysis that looks the column up after the five analyses
get_column_analysis_late(st, df, column, orders, normal) ==
    LET Results(s1, s2, s3, s4, s5) ==
            IF s2.res.exc THEN s2
            ELSE IF s4.res.exc THEN s4
            ELSE [cache |-> s5.cache, computed |-> s5.computed,
                  res |-> Ok([error |-> column])]
        Distribution(s1, s2, s3, s4) ==
            Results(s1, s2, s3, s4,
                    analyze_distributions(s4, df, DefaultBins, normal))
        Outliers(s1, s2, s3) ==
            Distribution(s1, s2, s3, analyze_outliers(s3, df, FALSE))
        Missing(s1, s2) == Outliers(s1, s2, analyze_missing(s2, df))
        Statistics(s1) == Missing(s1, analyze_statistics(s1, df, orders))
    IN Statistics(analyze_schema(st, df))

\* DataAnalyzer.get_column_analysis
get_column_analysis(st, df, column, orders, normal) ==
    LET Part(m) == IF column \in DOMAIN m THEN <<m[column]>> ELSE None
        Results(s1, s2, s3, s4, s5) ==
            IF s2.res.exc THEN s2
            ELSE IF s4.res.exc THEN s4
            ELSE [cache |-> s5.cache, computed |-> s5.computed,
                  res |-> Ok([column_name |-> column,
                              exists |-> TRUE,
                              schema |-> Part(s1.res.val.columns),
                              statistics |-> Part(s2.res.val.statistics),
                              missing |-> Part(s3.res.val.columns),
                              outliers |-> Part(s4.res.val.univariate),
                              distribution |->
                                  Part(s5.res.val.distributions)])]
        Distribution(s1, s2, s3, s4) ==
            Results(s1, s2, s3, s4,
                    analyze_distributions(s4, df, DefaultBins, normal))
        Outliers(s1, s2, s3) ==
            Distribution(s1, s2, s3, analyze_outliers(s3, df, FALSE))
        Missing(s1, s2) == Outliers(s1, s2, analyze_missing(s2, df))
        Statistics(s1) == Missing(s1, analyze_statistics(s1, df, orders))
    IN IF column \notin Range(Columns(df))
       THEN Return(st, Ok([error |-> column]))
       ELSE Statistics(analyze_schema(st, df))

\* a completeness weight of one half
CompletenessWeightHalf == Rat(5, 10)
\* the weights of the three sub-scores and the penalty per schema issue
CompletenessWeight == Rat(4, 10)
\* an outlier weight that makes the weights sum to more than one
OutlierWeightDouble == Rat(8, 10)
OutlierWeight == Rat(4, 10)
SchemaWeight == Rat(2, 10)
SchemaPenalty == 10

\* the rating thresholds of get_data_quality_score
QualityRating(overall_score) ==
    IF RLe(RInt(90), overall_score) THEN "excellent"
    ELSE IF RLe(RInt(75), overall_score) THEN "good"
    ELSE IF RLe(RInt(60), overall_score) THEN "fair"
    ELSE "poor"

\* sum of outlier_percentage over outliers_by_column
RECURSIVE SumPct(_, _)
SumPct(by_col, cols) ==
    IF cols = {} THEN Zero
    ELSE LET c == CHOOSE x \in cols : TRUE
         IN RAdd(by_col[c].outlier_percentage, SumPct(by_col, cols \ {c}))

\* the scoring part of get_data_quality_score, from the three results
QualityScore(df, missing, outliers, schema) ==
    LET Scores(completeness_score, avg_outlier_pct, outlier_score,
               duplicate_cols, unnamed_cols, schema_score, overall_score) ==
            [overall_score |-> Round2(overall_score),
             quality_rating |-> QualityRating(overall_score),
             completeness_score |-> Round2(completeness_score),
             outlier_score |-> Round2(outlier_score),
             schema_score |-> Round2(schema_score),
             issues |->
                 [missing_percentage |-> missing.overall_missing_percentage,
                  average_outlier_percentage |-> Round2(avg_outlier_pct),
                  duplicate_columns |-> duplicate_cols,
                  unnamed_columns |-> unnamed_cols]]
        Overall(completeness_score, avg_outlier_pct, outlier_score,
                duplicate_cols, unnamed_cols, schema_score) ==
            Scores(completeness_score, avg_outlier_pct, outlier_score,
                   duplicate_cols, unnamed_cols, schema_score,
                   RAdd(RAdd(RMul(completeness_score, CompletenessWeight),
                             RMul(outlier_score, OutlierWeight)),
                        RMul(schema_score, SchemaWeight)))
        Issues(completeness_score, avg_outlier_pct, duplicate_cols,
               unnamed_cols) ==
            Overall(completeness_score, avg_outlier_pct,
                    RMax(Zero, RSub(RInt(100), avg_outlier_pct)),
                    duplicate_cols, unnamed_cols,
                    RMax(Zero, RInt(100 - (duplicate_cols + unnamed_cols)
                                              * SchemaPenalty)))
        Duplicates(all_col_names) ==
            IF Len(all_col_names) # Cardinality(Range(all_col_names))
            THEN Len(all_col_names) - Cardinality(Range(all_col_names))
            ELSE 0
        Average(outlier_summary) ==
            IF outlier_summary.total_numeric_columns > 0
            THEN RDivInt(SumPct(outlier_summary.outliers_by_column,
                                DOMAIN outlier_summary.outliers_by_column),
                         outlier_summary.total_numeric_columns)
            ELSE Zero
    IN Issues(missing.complete_rows_percentage,
              Average(outliers.summary),
              Duplicates(Columns(df)),
              Cardinality({c \in DOMAIN schema.columns :
                              StrIn(tColumn_, schema.columns[c].column_name)}))

\* DataAnalyzer.get_data_quality_score
get_data_quality_score(st, df) ==
    LET Score(s1, s2, s3) ==
            IF s2.res.exc THEN s2
            ELSE [cache |-> s3.cache, computed |-> s3.computed,
                  res |-> Ok(QualityScore(df, s1.res.val, s2.res.val,
                                          s3.res.val))]
        Schema(s1, s2) == Score(s1, s2, analyze_schema(s2, df))
        Outliers(s1) == Schema(s1, analyze_outliers(s1, df, TRUE))
    IN Outliers(analyze_missing(st, df))

(***************************************************************************)
(* Datasets.                                                               *)
(***************************************************************************)
nA == <<"a">>
nB == <<"b">>
nColumn1 == tColumn_ \o <<"1">>
\* a name that no dataset of the model uses
nAbsent == <<"z">>
nC == <<"c">>
nD == <<"d">>
nE == <<"e">>
sX == <<"x">>

\* a series whose first `present` cells hold `first` and then `rest`, and
\* whose remaining cells are null
Cells(rows, present, first, rest) ==
    [r \in 1..rows |->
        IF r > present THEN Null ELSE IF r = 1 THEN Some(first) ELSE Some(rest)]

\* the frames the coordinator is exercised on: no columns; no rows; every
\* detector succeeds (one and two numeric columns); a Boolean column (the
\* text statistics raise); a numeric column with a single value (std() is
\* None)
CoordFrames ==
    { <<>>,
      <<Col(nA, Int64, <<>>), Col(nB, String, <<>>)>>,
      <<Col(nA, Int64, <<Some(0), Some(1)>>),
        Col(nB, String, <<Some(sX), Null>>)>>,
      <<Col(nA, Int64, <<Some(0), Some(1), Some(1)>>),
        Col(nColumn1, Int64, <<Some(1), Some(0), Null>>)>>,
      <<Col(nB, Boolean, <<Some(TRUE), Some(FALSE)>>),
        Col(nA, Int64, <<Some(0), Some(1)>>)>>,
      <<Col(nA, Int64, <<Some(1)>>)>> }

\* all frames of up to MaxRows rows with an Int64 column of cells in
\* {null} \cup 0..MaxVal and a second column of another dtype
IntCells == {Null} \cup {Some(v) : v \in 0..MaxVal}
OtherColumns(rows) ==
    {Col(nB, String, v) : v \in [1..rows -> {Null, Some(sX)}]}
    \cup {Col(nB, Categorical, v) : v \in [1..rows -> {Null, Some(sX)}]}
    \cup {Col(nB, Boolean, v) : v \in [1..rows -> {Null, Some(TRUE)}]}
    \cup {Col(nB, Date, v) : v \in [1..rows -> {Null, Some(0)}]}
SmallFrames ==
    UNION {{<<Col(nA, Int64, v), other>> :
                v \in [1..rows -> IntCells], other \in OtherColumns(rows)} :
           rows \in 0..MaxRows}

\* taller frames on which the scores fall next to a rounding or rating
\* boundary
TallFrames ==
    { <<Col(nB, String, Cells(64, 63, sX, sX))>>,
      <<Col(nB, String, Cells(65, 64, sX, sX))>>,
      <<Col(nColumn1, Int64, Cells(35, 31, 1, 0)),
        Col(nB, String, Cells(35, 16, sX, sX))>>,
      <<Col(nA, Int64, Cells(4, 4, 1, 0)),
        Col(nB, String, Cells(4, 3, sX, sX))>> }

\* numeric columns for the outlier detectors: a flagged value behind a null
\* cell, the series 1, 2, 3, 4, 100, and a series in which only the MAD
\* method flags a value
OutlierFrames ==
    { <<Col(nA, Int64, <<Some(0), Some(0), Some(0), Null, Some(1)>>)>>,
      <<Col(nA, Int64, <<Some(1), Some(2), Some(3), Some(4), Some(100)>>)>>,
      <<Col(nA, Int64, <<Some(0), Some(0), Some(10), Some(10), Some(11),
                         Some(11), Some(11)>>)>> }

\* frames of two numeric columns of up to MaxRows rows
TwoNumericFrames ==
    UNION {{<<Col(nA, Int64, v), Col(nColumn1, Int64, w)>> :
                v \in [1..rows -> IntCells],
                w \in [1..rows -> {Null, Some(0)}]} :
           rows \in 0..MaxRows}

\* a column in which every fourth of 4004 values is flagged, more than
\* the index lists and the sample of values retain
LimitFrames ==
    { <<Col(nA, Int64,
            [r \in 1..(4 * (IndexCap + 1)) |->
                Some(IF r % 4 = 0 THEN 1 ELSE 0)])>> }

\* two numeric columns of the given number of rows, the first two of them
\* without nulls
TwoFullRows(rows) ==
    <<Col(nA, Int64, Cells(rows, 2, 0, 0)),
      Col(nColumn1, Int64, Cells(rows, 2, 0, 0))>>

OutFrames == TwoNumericFrames \cup OutlierFrames \cup LimitFrames

FnFrames == SmallFrames \cup TallFrames \cup OutlierFrames \cup {<<>>}

(***************************************************************************)
(* State.                                                                  *)
(***************************************************************************)
VARIABLES
    df,        \* self.df, the frame the coordinator was constructed on
    cache,     \* self._cache: analysis kind -> stored result
    computed,  \* per kind, results computed and stored since the last clear
    call,      \* the last call: [op, skip, column]
    ret,       \* its outcome: [exc |-> FALSE, val |-> v] or [exc |-> TRUE]
    loader,    \* a DataLoader and the DatasetInfo objects it has created
    threads,   \* the worker threads of the screens: position and locals
    tui        \* the DatatuiApp: its fields, screens and load worker

vars == <<df, cache, computed, call, ret, loader, threads, tui>>

\* no loader, worker thread or application exists
Absent == <<>>

\* the outcomes of the library calls that a request can observe: the order
\* of the value-frequency tables and the normality votes matter only to a
\* request that computes the statistics or the distributions
Orders == IF "statistics" \in DOMAIN cache
          THEN {CHOOSE o \in FrameOrders(df) : TRUE} ELSE FrameOrders(df)
Votes == IF "distributions" \in DOMAIN cache
         THEN {CHOOSE v \in NormalVotes(df) : TRUE} ELSE NormalVotes(df)

Call(op, skip, column) == [op |-> op, skip |-> skip, column |-> column]
\* a call that passes a number of histogram bins
CallBins(op, bins) ==
    [op |-> op, skip |-> FALSE, column |-> <<>>, bins |-> bins]
\* the bin counts that requests pass: the default and a coarser histogram
FewBins == 2
BinCounts == {DefaultBins, FewBins}

\* the coordinator state before and after a method
Self == [cache |-> cache, computed |-> computed]
Becomes(new, c) ==
    /\ cache' = new.cache
    /\ computed' = new.computed
    /\ ret' = new.res
    /\ call' = c
    /\ UNCHANGED <<df, loader, threads, tui>>

\* DataAnalyzer.__init__
InitOn(frames) ==
    /\ df \in frames
    /\ cache = EmptyCache
    /\ computed = NoneComputed
    /\ call = Call("__init__", FALSE, <<>>)
    /\ ret = Ok(NoValue)
    /\ loader = Absent
    /\ threads = Absent
    /\ tui = Absent

Init == InitOn(CoordFrames)

AnalyzeSchema ==
    Becomes(analyze_schema(Self, df), Call("analyze_schema", FALSE, <<>>))

AnalyzeStatistics ==
    \E orders \in Orders :
        Becomes(analyze_statistics(Self, df, orders),
                Call("analyze_statistics", FALSE, <<>>))

AnalyzeMissing ==
    Becomes(analyze_missing(Self, df), Call("analyze_missing", FALSE, <<>>))

AnalyzeOutliers ==
    \E skip \in BOOLEAN :
        Becomes(analyze_outliers(Self, df, skip),
                Call("analyze_outliers", skip, <<>>))

AnalyzeCorrelations ==
    Becomes(analyze_correlations(Self, df),
            Call("analyze_correlations", FALSE, <<>>))

\* analyze_distributions(bins) for one of the given bin counts
AnalyzeDistributionsWith(counts) ==
    \E bins \in counts, normal \in Votes :
        Becomes(analyze_distributions(Self, df, bins, normal),
                CallBins("analyze_distributions", bins))

\* analyze_distributions() as the screens request it
AnalyzeDistributions == AnalyzeDistributionsWith({DefaultBins})

AnalyzeAll ==
    \E skip \in BOOLEAN, orders \in Orders, normal \in Votes :
        Becomes(analyze_all(Self, df, skip, orders, normal),
                Call("analyze_all", skip, <<>>))

GetQuickSummary ==
    Becomes(get_quick_summary(Self, df), Call("get_quick_summary", FALSE, <<>>))

ClearCache ==
    Becomes(clear_cache(Self), Call("clear_cache", FALSE, <<>>))

GetColumnAnalysis ==
    \E column \in Range(Columns(df)) \cup {nAbsent},
       orders \in Orders, normal \in Votes :
        Becomes(get_column_analysis(Self, df, column, orders, normal),
                Call("get_column_analysis", FALSE, column))

GetDataQualityScore ==
    Becomes(get_data_quality_score(Self, df),
            Call("get_data_quality_score", FALSE, <<>>))

Next ==
    \/ AnalyzeSchema
    \/ AnalyzeStatistics
    \/ AnalyzeMissing
    \/ AnalyzeOutliers
    \/ AnalyzeCorrelations
    \/ AnalyzeDistributions
    \/ AnalyzeAll
    \/ GetQuickSummary
    \/ ClearCache
    \/ GetColumnAnalysis
    \/ GetDataQualityScore

Spec == Init /\ [][Next]_vars

(***************************************************************************)
(* The cache of the coordinator.                                           *)
(***************************************************************************)
\* the request method of each analysis kind
RequestOf ==
    [k \in Kinds |->
        CASE k = "schema" -> "analyze_schema"
          [] k = "statistics" -> "analyze_statistics"
          [] k = "missing" -> "analyze_missing"
          [] k = "outliers" -> "analyze_outliers"
          [] k = "correlations" -> "analyze_correlations"
          [] k = "distributions" -> "analyze_distributions"]

\* the kinds that get_data_quality_score requests
ScoreKinds == {"missing", "outliers", "schema"}

\* C1: in a sequence of calls without clear_cache the result of each of the
\* six kinds is computed and stored at most once, and a later request for a
\* stored kind computes nothing and hands out the stored entry, also when
\* the request is made inside analyze_all or get_data_quality_score.
C1_ComputedAtMostOnce ==
    [][call'.op # "clear_cache" =>
          \A k \in Kinds :
              /\ computed'[k] <= 1
              /\ k \in DOMAIN cache =>
                    /\ computed'[k] = computed[k]
                    /\ (call'.op = "analyze_all" /\ ~ret'.exc) =>
                           ret'.val[k] = cache[k]
                    /\ (call'.op = "get_data_quality_score" /\ ~ret'.exc
                        /\ ScoreKinds \subseteq DOMAIN cache) =>
                           ret'.val = QualityScore(df, cache["missing"],
                                                   cache["outliers"],
                                                   cache["schema"])]_vars

\* analyze_all asked for the multivariate detection on a frame that
\* qualifies for it and returned the entry stored by an earlier request
\* that skipped it
C1_Witness ==
    /\ call.op = "analyze_all"
    /\ ~call.skip
    /\ ~ret.exc
    /\ Len(GetNumericColumns(df)) > 1
    /\ ret.val.outliers.multivariate = None
    /\ \A k \in Kinds : computed[k] = 1

\* C2: a request for a kind whose entry is stored returns exactly the
\* stored record and leaves the cache as it is, for each of the six kinds.
C2_CacheHit ==
    [][\A k \in Kinds :
          (call'.op = RequestOf[k] /\ k \in DOMAIN cache) =>
              /\ ret' = Ok(cache[k])
              /\ cache' = cache]_vars

\* analyze_outliers(skip_multivariate = False) on a frame with two numeric
\* columns returned the entry of a request that skipped the detection
C2_Witness ==
    /\ call.op = "analyze_outliers"
    /\ ~call.skip
    /\ ~ret.exc
    /\ Len(GetNumericColumns(df)) > 1
    /\ ret.val.multivariate = None
    /\ ret.val = cache["outliers"]

\* C3: only clear_cache removes or replaces a stored entry; clear_cache
\* leaves no entry of any kind; a request for a kind that has no entry
\* computes and stores it.
C3_OnlyClearDiscards ==
    [][/\ call'.op # "clear_cache" =>
              \A k \in DOMAIN cache :
                  k \in DOMAIN cache' /\ cache'[k] = cache[k]
       /\ call'.op = "clear_cache" => DOMAIN cache' = {}
       /\ \A k \in Kinds :
              (call'.op = RequestOf[k] /\ k \notin DOMAIN cache
               /\ ~ret'.exc) =>
                  /\ computed'[k] = computed[k] + 1
                  /\ k \in DOMAIN cache'
                  /\ ret' = Ok(cache'[k])]_vars

\* clear_cache has run and nothing is stored
C3_Witness ==
    /\ call.op = "clear_cache"
    /\ DOMAIN cache = {}
    /\ \A k \in Kinds : computed[k] = 0
    /\ Len(df) > 0

\* C8: get_column_analysis of a name that is not a column returns a record
\* with an 'error' entry, raises nothing, computes nothing and leaves the
\* cache as it was.
C8_UnknownColumn ==
    [][(call'.op = "get_column_analysis"
        /\ call'.column \notin Range(Columns(df))) =>
           /\ ~ret'.exc
           /\ "error" \in DOMAIN ret'.val
           /\ cache' = cache
           /\ computed' = computed]_vars

\* the unknown column was asked for on a frame with columns before any
\* analysis had been stored
C8_Witness ==
    /\ call.op = "get_column_analysis"
    /\ call.column = nAbsent
    /\ ~ret.exc
    /\ "error" \in DOMAIN ret.val
    /\ Len(df) > 0
    /\ DOMAIN cache = {}


(***************************************************************************)
(* The detectors and the score called directly on a frame (the module      *)
(* level functions analyze_statistics(df), detect_outliers(df),            *)
(* get_data_quality_score(df)), over a larger family of frames.            *)
(***************************************************************************)
InitFn == InitOn(FnFrames)

\* StatisticsAnalyzer(df).analyze_column(column)
StatisticsAnalyzeColumn ==
    \E i \in 1..Len(df), orders \in FrameOrders(df) :
        /\ ret' = AnalyzeColumn(df[i], orders[i])
        /\ call' = Call("StatisticsAnalyzer.analyze_column", FALSE, df[i].name)
        /\ UNCHANGED <<df, cache, computed, loader, threads, tui>>

\* statistics.analyze_statistics(df)
StatisticsAnalyzeAllCall ==
    \E orders \in FrameOrders(df) :
        /\ ret' = StatisticsAnalyzeAll(df, orders)
        /\ call' = Call("StatisticsAnalyzer.analyze_all", FALSE, <<>>)
        /\ UNCHANGED <<df, cache, computed, loader, threads, tui>>

\* outliers.detect_outliers(df)
DetectAllCall ==
    /\ ret' = DetectAll(df)
    /\ call' = Call("OutlierDetector.detect_all", FALSE, <<>>)
    /\ UNCHANGED <<df, cache, computed, loader, threads, tui>>

NextFn ==
    \/ StatisticsAnalyzeColumn
    \/ StatisticsAnalyzeAllCall
    \/ DetectAllCall
    \/ GetDataQualityScore

SpecFn == InitFn /\ [][NextFn]_vars

(***************************************************************************)
(* The outlier detector and the coordinator's outlier request, over frames *)
(* of numeric columns up to the sizes at which the lists are cut and the   *)
(* multivariate detection is skipped.                                      *)
(***************************************************************************)
InitOut == InitOn(OutFrames)

NextOut ==
    \/ AnalyzeOutliers
    \/ DetectAllCall

SpecOut == InitOut /\ [][NextOut]_vars

(***************************************************************************)
(* The schema detector and the missing-value analyzer called on a frame.   *)
(***************************************************************************)
\* two columns that are null together in rows 2, 5 and 9 of 10
Scenario3 ==
    <<Col(nA, Int64, [r \in 1..10 |-> IF r \in {2, 5, 9} THEN Null ELSE Some(0)]),
      Col(nB, String, [r \in 1..10 |-> IF r \in {2, 5, 9} THEN Null ELSE Some(sX)])>>

\* the null pattern of row r of ManyPatterns, as the binary code of its
\* null columns: 22 distinct patterns, of which five occur several times,
\* and two rows without a null
PatternCode(r) ==
    IF r <= 22 THEN r ELSE IF r <= 44 THEN 18 + (r % 5) ELSE 0

PatternColumn(name, bit) ==
    Col(name, String,
        [r \in 1..46 |->
            IF (PatternCode(r) \div (2 ^ bit)) % 2 = 1 THEN Null ELSE Some(sX)])

ManyPatterns ==
    <<PatternColumn(nA, 0), PatternColumn(nB, 1), PatternColumn(nC, 2),
      PatternColumn(nD, 3), PatternColumn(nE, 4)>>

MissingFrames == SmallFrames \cup {Scenario3, ManyPatterns, <<>>}

InitMissing == InitOn(MissingFrames)

\* schema.detect_schema(df)
DetectSchemaCall ==
    /\ ret' = Ok(DetectSchema(df))
    /\ call' = Call("SchemaDetector.detect_schema", FALSE, <<>>)
    /\ UNCHANGED <<df, cache, computed, loader, threads, tui>>

\* missing.analyze_missing(df)
AnalyzeMissingCall ==
    /\ ret' = Ok(MissingAnalyzerAnalyze(df))
    /\ call' = Call("MissingAnalyzer.analyze_missing", FALSE, <<>>)
    /\ UNCHANGED <<df, cache, computed, loader, threads, tui>>

NextMissing ==
    \/ DetectSchemaCall
    \/ AnalyzeMissingCall

SpecMissing == InitMissing /\ [][NextMissing]_vars

(***************************************************************************)
(* The normality tests called on a column of a frame.                      *)
(***************************************************************************)
\* one null cell followed by n values 1, 0, 1, 0, ...
Alternating(n) == [r \in 1..(n + 1) |-> IF r = 1 THEN Null ELSE Some(r % 2)]

\* a numeric column with as many values as the tests' sample sizes, one
\* less and one more, next to a text column
NormalityFrames ==
    {<<Col(nA, Int64, Alternating(n)),
       Col(nB, String, [r \in 1..(n + 1) |-> Some(sX)])>> :
         n \in {0, MinTestSamples - 1, MinTestSamples,
                DagostinoMinSamples - 1, DagostinoMinSamples,
                ShapiroMaxSamples, ShapiroMaxSamples + 1}}

InitNormality == InitOn(NormalityFrames)

\* distributions.test_normality(df, column)
TestNormalityCall ==
    \E column \in Range(Columns(df)) \cup {nAbsent},
       outcome \in [Range(TestNames) -> TestOutcomes] :
        /\ ret' = Ok(TestNormalityOf(df, column, outcome))
        /\ call' = [op |-> "DistributionAnalyzer.test_normality",
                    skip |-> FALSE, column |-> column, outcome |-> outcome]
        /\ UNCHANGED <<df, cache, computed, loader, threads, tui>>

NextNormality == TestNormalityCall

SpecNormality == InitNormality /\ [][NextNormality]_vars

(***************************************************************************)
(* The correlation matrix called on a frame.                               *)
(***************************************************************************)
\* frames of up to MaxRows + 1 rows with two enumerated numeric columns, a
\* text column between them and a third numeric column 1, 2, 3, ...
CorrelationFramesOf(rows) ==
    {<<Col(nA, Int64, v), Col(nB, String, [r \in 1..rows |-> Some(sX)]),
       Col(nC, Int64, w), Col(nD, Int64, [r \in 1..rows |-> Some(r)])>> :
         v \in [1..rows -> IntCells],
         w \in [1..rows -> {Null, Some(0), Some(1)}]}

RECURSIVE CorrelationFramesUpTo(_)
CorrelationFramesUpTo(rows) ==
    IF rows = 0 THEN CorrelationFramesOf(0)
    ELSE CorrelationFramesOf(rows) \cup CorrelationFramesUpTo(rows - 1)

CorrelationFrames ==
    CorrelationFramesUpTo(MaxRows + 1)
    \cup {<<>>, <<Col(nB, String, <<Some(sX)>>)>>}

InitCorrelation == InitOn(CorrelationFrames)

\* correlations.get_correlation_matrix(df, method)
GetCorrelationMatrixCall ==
    \E method \in Methods :
        /\ ret' = Ok(GetCorrelationMatrix(df, method))
        /\ call' = [op |-> "CorrelationAnalyzer.get_correlation_matrix",
                    skip |-> FALSE, column |-> <<>>, method |-> method]
        /\ UNCHANGED <<df, cache, computed, loader, threads, tui>>

NextCorrelation == GetCorrelationMatrixCall

SpecCorrelation == InitCorrelation /\ [][NextCorrelation]_vars

(***************************************************************************)
(* The schema detector called on frames of text columns.                   *)
(***************************************************************************)
vEmail == <<"a", "@", "b", ".", "c", "o">>
vUrl == <<"h", "t", "t", "p", ":", "/", "/", "a">>
vPhone == <<"5", "5", "5", "-", "1", "2", "3", "4">>
vIp == <<"1", "." , "2", ".", "3", ".", "4">>
vZipcode == <<"1", "2", "3", "4", "5">>
nShip == <<"S", "h", "I", "P">>
nPaid == <<"P", "a", "i", "d">>

\* runs[1] cells v, then runs[2] cells "x", then runs[3] cells v
Runs(v, runs) ==
    [r \in 1..(runs[1] + runs[2] + runs[3]) |->
        IF r <= runs[1] \/ r > runs[1] + runs[2] THEN Some(v) ELSE Some(sX)]

\* the shares of matching values around 80%, in columns of up to 6 values
\* and in columns longer than the sample of 100 (where the share in the
\* sample and the share in the column differ)
Shares ==
    { <<4, 1, 0>>, <<5, 1, 0>>, <<3, 2, 0>>, <<1, 0, 0>>, <<0, 1, 0>>,
      <<100, 25, 0>>, <<80, 20, 400>>, <<81, 119, 0>>, <<79, 21, 400>> }

SemanticFrames ==
    {<<Col(name, dtype, cells)>> :
        name \in {nC, nShip},
        dtype \in {String, Categorical},
        cells \in {Runs(v, runs) : v \in {vEmail, vUrl, vPhone, vIp, vZipcode},
                                  runs \in Shares}
                    \cup {<<Null>> \o Runs(vEmail, <<4, 1, 0>>), <<Null>>, <<>>}}
        \cup {<<Col(nPaid, Int64, <<Some(1)>>)>>}

InitSchema == InitOn(SemanticFrames)

NextSchema == DetectSchemaCall

SpecSchema == InitSchema /\ [][NextSchema]_vars

(***************************************************************************)
(* The distribution analysis called on a frame.                            *)
(***************************************************************************)
\* a numeric column with the given values next to a text column
Valued(values) ==
    <<Col(nA, Int64, [r \in 1..Len(values) |-> Some(values[r])]),
      Col(nB, String, [r \in 1..Len(values) |-> Some(sX)])>>

\* the same with a null cell before the values
NullThenValued(values) ==
    <<Col(nA, Int64, <<Null>> \o [r \in 1..Len(values) |-> Some(values[r])]),
      Col(nB, String, [r \in 1..(Len(values) + 1) |-> Some(sX)])>>

\* columns of ten to fourteen values on which each rule of the type
\* decision is the first to match, a column of ten equal values, a column
\* of nine values, and two columns of four values (with and without skew)
TypedSeries ==
    { <<1, 1, 2, 2, 2, 3, 4, 4, 4, 5, 5>>,
      <<2, 3, 4, 4, 4, 4, 4, 5, 5, 5>>,
      <<2, 3, 4, 5, 6, 7, 8, 8, 10, 11, 13>>,
      <<-1, 1, 1, 1, 2, 2, 2, 2, 3, 4, 5>>,
      <<0, 3, 3, 3, 3, 5, 5, 5, 5, 5, 5, 6>>,
      <<0, 0, 1, 1, 1, 2, 2, 2, 2, 3, 4, 6>>,
      <<0, 1, 2, 3, 4, 4, 5, 5, 6, 7, 11, 12>>,
      <<-6, -4, -3, -2, -1, 0, 1, 2, 3, 4, 6>>,
      <<-6, -5, -4, -3, -2, -1, -1, -1, 0, 2, 4, 5>>,
      <<94, 96, 97, 98, 99, 100, 101, 102, 103, 104, 106>>,
      <<0, 0, 0, 0, 0, 0, -1, 1, 0, 0, 0, 0, 0, 0>>,
      <<1, 1, 1, 1, 1, 1, 1, 1, 1, 1>>,
      <<0, 0, 0, 0, 0, 0, 0, 0, 9>>,
      <<0, 0, 0, 1>>,
      <<0, 1, 2, 3>> }

RECURSIVE ShortFramesUpTo(_)
\* every numeric column of up to the given number of cells
ShortFramesUpTo(rows) ==
    {<<Col(nA, Int64, v)>> : v \in [1..rows -> IntCells]}
        \cup (IF rows = 0 THEN {} ELSE ShortFramesUpTo(rows - 1))

DistributionFrames ==
    {Valued(values) : values \in TypedSeries}
        \cup {NullThenValued(values) : values \in TypedSeries}
        \cup ShortFramesUpTo(MaxRows + 1)

InitDistribution == InitOn(DistributionFrames)

\* distributions.analyze_distributions(df): analyze_all over the numeric
\* columns; outcome[c][t] is what test t does on column c if it is tried
AnalyzeDistributionsCall ==
    \E outcome \in [Range(GetNumericColumns(df)) ->
                       [Range(TestNames) -> TestOutcomes]],
       degenerate \in Degenerate :
        /\ ret' = Ok([c \in Range(GetNumericColumns(df)) |->
                         AnalyzeDistributionColumn(df[ColIndex(df, c)],
                                                   outcome[c], degenerate)])
        /\ call' = Call("DistributionAnalyzer.analyze_all", FALSE, <<>>)
        /\ UNCHANGED <<df, cache, computed, loader, threads, tui>>

NextDistribution == AnalyzeDistributionsCall

SpecDistribution == InitDistribution /\ [][NextDistribution]_vars

(***************************************************************************)
(* The quality score, stated from the frame alone.                         *)
(***************************************************************************)
\* the rows in which no column is null
CompleteRows(f) ==
    {r \in 1..NumRows(f) : \A i \in 1..Len(f) : f[i].vals[r] # Null}

\* the percentage of complete rows; 0 for a frame without rows
Completeness(f) ==
    IF NumRows(f) = 0 THEN Zero
    ELSE Rat(100 * Cardinality(CompleteRows(f)), NumRows(f))

\* the percentage of a column's non-null values that the IQR, the z-score
\* or the MAD method flags; 0 for a column without values
CombinedOutlierPct(col) ==
    LET series == DropNulls(col.vals)
        flagged == Range(DetectIqrOutliers(series)[1])
                   \cup Range(DetectZscoreOutliers(series, ZscoreThreshold).val)
                   \cup Range(DetectMadOutliers(series, MadThreshold))
    IN IF Len(series) = 0 THEN Zero
       ELSE Rat(100 * Cardinality(flagged), Len(series))

RECURSIVE RSumSeq(_)
RSumSeq(s) == IF s = <<>> THEN Zero ELSE RAdd(Head(s), RSumSeq(Tail(s)))

\* 100 minus the average combined-outlier percentage of the numeric
\* columns, not below 0; 100 for a frame without numeric columns
OutlierScore(f) ==
    LET numeric == SelectSeq([i \in 1..Len(f) |-> i],
                             LAMBDA i : IsNumeric(f[i].dtype))
        pct == [k \in 1..Len(numeric) |-> CombinedOutlierPct(f[numeric[k]])]
    IN IF Len(numeric) = 0 THEN RInt(100)
       ELSE RMax(Zero, RSub(RInt(100), RDivInt(RSumSeq(pct), Len(numeric))))

\* 100 minus 10 per duplicate or placeholder column name, not below 0
SchemaScore(f) ==
    LET names == [i \in 1..Len(f) |-> f[i].name]
        duplicate == Len(names) - Cardinality(Range(names))
        unnamed == Cardinality({i \in 1..Len(f) : StrIn(tColumn_, names[i])})
    IN RMax(Zero, RInt(100 - 10 * (duplicate + unnamed)))

WeightedScore(c, o, s) ==
    RAdd(RAdd(RMul(Rat(4, 10), c), RMul(Rat(4, 10), o)), RMul(Rat(2, 10), s))

\* a score record has been returned for df
Scored == call.op = "get_data_quality_score" /\ ~ret.exc

\* C4: the overall score that get_data_quality_score returns is 0.4 x
\* completeness + 0.4 x outlier score + 0.2 x schema score (as returned, to
\* two decimals), with completeness the percentage of rows without a null,
\* the outlier score 100 minus the average combined-outlier percentage of
\* the numeric columns and the schema score 100 minus 10 per duplicate or
\* placeholder column name, both not below 0.
C4_WeightedSum ==
    Scored =>
        /\ ret.val.overall_score =
               Round2(WeightedScore(Completeness(df), OutlierScore(df),
                                    SchemaScore(df)))
        /\ ret.val.completeness_score = Round2(Completeness(df))
        /\ ret.val.outlier_score = Round2(OutlierScore(df))
        /\ ret.val.schema_score = Round2(SchemaScore(df))

\* a frame on which the three sub-scores differ from each other and from
\* their extremes has been scored
C4_Witness ==
    /\ Scored
    /\ ret.val.completeness_score \notin {0, 10000}
    /\ ret.val.outlier_score \notin {0, 10000}
    /\ ret.val.schema_score = 9000
    /\ ret.val.completeness_score # ret.val.outlier_score

\* C5: the overall score and the three sub-scores that
\* get_data_quality_score returns lie in [0, 100] (in hundredths:
\* 0..10000), also for frames without rows, without columns or with
\* columns that are entirely null.
C5_ScoresInRange ==
    Scored =>
        /\ ret.val.overall_score \in 0..10000
        /\ ret.val.completeness_score \in 0..10000
        /\ ret.val.outlier_score \in 0..10000
        /\ ret.val.schema_score \in 0..10000

\* a frame with rows and an entirely null numeric column has been scored
C5_Witness ==
    /\ Scored
    /\ NumRows(df) > 0
    /\ \E i \in 1..Len(df) :
           IsNumeric(df[i].dtype) /\ DropNulls(df[i].vals) = <<>>
    /\ ret.val.overall_score \in 0..10000

\* the coordinator before any request
Fresh == [cache |-> EmptyCache, computed |-> NoneComputed]

\* the frames that df is compared with
RefFrames == TallFrames \cup CoordFrames

\* what get_data_quality_score returns on a frame
ScoreOf(f) == get_data_quality_score(Fresh, f).res

\* the scored frames with the outlier and schema score of df and a
\* smaller completeness
LessComplete ==
    {f \in RefFrames : /\ SchemaScore(f) = SchemaScore(df)
                       /\ RLt(Completeness(f), Completeness(df))
                       /\ ~ScoreOf(f).exc
                       /\ OutlierScore(f) = OutlierScore(df)}

\* C6 (as claimed): with equal outlier and schema scores, the frame of
\* greater completeness gets the strictly greater overall score.
C6_StrictlyGreater ==
    Scored => \A f \in LessComplete :
                  ScoreOf(f).val.overall_score < ret.val.overall_score

\* C6 (amended): with equal outlier and schema scores, the frame of
\* greater completeness gets an overall score that is not smaller.
C6_NotSmaller ==
    Scored => \A f \in LessComplete :
                  ScoreOf(f).val.overall_score <= ret.val.overall_score

\* df has been scored and a frame of smaller completeness and the same
\* outlier and schema score has the same returned overall score
C6_Witness ==
    /\ Scored
    /\ \E f \in LessComplete :
           ScoreOf(f).val.overall_score = ret.val.overall_score

\* the label of an overall score given in hundredths
RatingOf(hundredths) ==
    IF hundredths >= 9000 THEN "excellent"
    ELSE IF hundredths >= 7500 THEN "good"
    ELSE IF hundredths >= 6000 THEN "fair"
    ELSE "poor"

\* C7: in every returned score record, quality_rating is the label of the
\* returned overall_score: excellent from 90, good from 75, fair from 60,
\* poor below.
C7_RatingOfReturnedScore ==
    Scored => ret.val.quality_rating = RatingOf(ret.val.overall_score)

(***************************************************************************)
(* Failures and empty columns.                                             *)
(***************************************************************************)
\* C9: a column whose analysis fails does not keep the coordinator's
\* statistics or outlier request from returning a result in which every
\* other column is reported.
C9_FailuresContained ==
    /\ call.op = "analyze_statistics" =>
           /\ ~ret.exc
           /\ \A i \in 1..Len(df) :
                  (\E o \in ValueOrders(DropNulls(df[i].vals)) :
                       ~AnalyzeColumn(df[i], o).exc)
                  => df[i].name \in DOMAIN ret.val.statistics
    /\ call.op = "analyze_outliers" =>
           /\ ~ret.exc
           /\ \A i \in 1..Len(df) :
                  (/\ IsNumeric(df[i].dtype)
                   /\ ~DetectColumnOutliers(df[i], ZscoreThreshold,
                                            MadThreshold).exc)
                  => df[i].name \in DOMAIN ret.val.univariate

\* the column that StatisticsAnalyzer.analyze_column was last called on
Analyzed == df[ColIndex(df, call.column)]

\* analyze_column has been called on a column without non-null values
AnalyzedEmpty ==
    /\ call.op = "StatisticsAnalyzer.analyze_column"
    /\ DropNulls(Analyzed.vals) = <<>>

\* C10: on a column without non-null values analyze_column raises nothing
\* and returns a record with count = 0 and every derived field at its zero
\* or empty default, in the numeric, the datetime, the categorical and the
\* text branch.
C10_EmptyColumnDefaults ==
    AnalyzedEmpty =>
        /\ ~ret.exc
        /\ ret.val.count = 0
        /\ ret.val.null_count = Len(Analyzed.vals)
        /\ ret.val.type = "NumericStats" =>
               /\ \A f \in {"mean", "median", "variance", "min", "max",
                            "range", "q25", "q50", "q75", "iqr", "kurtosis",
                            "sum"} : ret.val[f] = Zero
               /\ \A f \in {"std", "skewness", "cv"} : ret.val[f] = SurdZero
               /\ \A f \in {"zero_count", "negative_count",
                            "positive_count"} : ret.val[f] = 0
               /\ ret.val.mode = None
        /\ ret.val.type = "DatetimeStats" =>
               /\ \A f \in {"min", "max", "range_days", "mode"} :
                      ret.val[f] = None
               /\ ret.val.unique_count = 0
        /\ ret.val.type = "CategoricalStats" =>
               /\ ret.val.unique_count = 0
               /\ ret.val.mode = None
               /\ ret.val.mode_frequency = 0
               /\ ret.val.mode_percentage = Zero
               /\ ret.val.top_values = <<>>
               /\ ret.val.entropy = [counts |-> <<>>, total |-> 0]
               /\ ~ret.val.is_unique
        /\ ret.val.type = "TextStats" =>
               /\ ret.val.unique_count = 0
               /\ ret.val.mode = None
               /\ ret.val.avg_length = Zero
               /\ ret.val.min_length = 0
               /\ ret.val.max_length = 0
               /\ ret.val.empty_count = 0
               /\ ret.val.top_values = <<>>

\* analyze_column has returned the text record of an entirely null column
\* of a frame with rows
C10_Witness ==
    /\ AnalyzedEmpty
    /\ NumRows(df) > 0
    /\ ~ret.exc
    /\ ret.val.type = "TextStats"
    /\ ret.val.count = 0

(***************************************************************************)
(* The outlier detector.                                                   *)
(***************************************************************************)
\* detect_all has been called on the frame
Detected == call.op = "OutlierDetector.detect_all"

\* the non-null values of the numeric column c
SeriesOf(c) == DropNulls(df[ColIndex(df, c)].vals)

\* C11: detect_all does not raise on, and returns an empty z-score and an
\* empty MAD outlier set for, every numeric column whose non-null values
\* are all equal, a column with exactly one non-null value included.
C11_ConstantColumnUnflagged ==
    Detected =>
        \A c \in Range(GetNumericColumns(df)) :
            (Len(SeriesOf(c)) >= 1 /\ NUnique(SeriesOf(c)) = 1) =>
                /\ ~ret.exc
                /\ ret.val[c].zscore_outliers = <<>>
                /\ ret.val[c].zscore_outlier_count = 0
                /\ ret.val[c].mad_outliers = <<>>
                /\ ret.val[c].mad_outlier_count = 0

\* the index lists of the three methods in an OutlierInfo
IndexLists(info) ==
    {info.iqr_outliers, info.zscore_outliers, info.mad_outliers}

\* C12 as stated: every index in iqr_outliers, zscore_outliers and
\* mad_outliers is the index of a row of the dataset in which the column
\* is non-null.
C12_RowIndices ==
    (Detected /\ ~ret.exc) =>
        \A c \in DOMAIN ret.val : \A l \in IndexLists(ret.val[c]) :
            \A k \in 1..Len(l) :
                /\ l[k] + 1 \in 1..NumRows(df)
                /\ df[ColIndex(df, c)].vals[l[k] + 1] # Null

\* what the lists do hold: every index in iqr_outliers, zscore_outliers
\* and mad_outliers is a position (from 0) in the sequence of the column's
\* non-null values, and the value at an IQR position lies outside the
\* reported bounds
PositionsInNonNull ==
    (Detected /\ ~ret.exc) =>
        \A c \in DOMAIN ret.val :
            /\ \A l \in IndexLists(ret.val[c]) : \A k \in 1..Len(l) :
                   l[k] \in 0..(Len(SeriesOf(c)) - 1)
            /\ \A k \in 1..Len(ret.val[c].iqr_outliers) :
                   \/ RLt(RInt(SeriesOf(c)[ret.val[c].iqr_outliers[k] + 1]),
                          ret.val[c].iqr_lower_bound)
                   \/ RLt(ret.val[c].iqr_upper_bound,
                          RInt(SeriesOf(c)[ret.val[c].iqr_outliers[k] + 1]))

\* C13: for every numeric column with a non-null value, the returned
\* outlier_percentage is the number of positions that the IQR, the z-score
\* or the MAD method flags (all of them, not only those kept in the
\* lists), over the number of non-null values, times 100; it lies in
\* [0, 100].
C13_UnionPercentage ==
    (Detected /\ ~ret.exc) =>
        \A c \in DOMAIN ret.val :
            Len(SeriesOf(c)) >= 1 =>
                /\ ret.val[c].outlier_percentage =
                       CombinedOutlierPct(df[ColIndex(df, c)])
                /\ RLe(Zero, ret.val[c].outlier_percentage)
                /\ RLe(ret.val[c].outlier_percentage, RInt(100))

\* detect_all has returned a percentage for a column in which a method
\* flags more positions than its list keeps
C13_Witness ==
    /\ Detected
    /\ ~ret.exc
    /\ \E c \in DOMAIN ret.val :
           /\ ret.val[c].iqr_outlier_count > Len(ret.val[c].iqr_outliers)
           /\ ret.val[c].outlier_percentage =
                  Rat(ret.val[c].iqr_outlier_count * 100,
                      ret.val[c].total_count)

\* the positions (from 0) of the values of c outside the IQR bounds
IqrFlagged(c, lower, upper) ==
    {i \in 0..(Len(SeriesOf(c)) - 1) :
        \/ RLt(RInt(SeriesOf(c)[i + 1]), lower)
        \/ RLt(upper, RInt(SeriesOf(c)[i + 1]))}

\* the positions that the z-score and the MAD method flag in c
ZscoreFlagged(c) ==
    Range(DetectZscoreOutliers(SeriesOf(c), ZscoreThreshold).val)
MadFlagged(c) == Range(DetectMadOutliers(SeriesOf(c), MadThreshold))

\* list holds the smallest elements of S in ascending order, all of them
\* or the first 1000, and count is the size of S
FirstOf(list, count, S) ==
    /\ count = Cardinality(S)
    /\ Len(list) = (IF count < 1000 THEN count ELSE 1000)
    /\ \A k \in 1..Len(list) :
           /\ list[k] \in S
           /\ Cardinality({i \in S : i < list[k]}) = k - 1

\* C14: each of iqr_outliers, zscore_outliers and mad_outliers holds at
\* most 1000 indices, the first 1000 flagged ones in ascending order,
\* outlier_values holds at most 100 values, and the three counts are the
\* full numbers of flagged positions.
C14_ListsCut ==
    (Detected /\ ~ret.exc) =>
        \A c \in DOMAIN ret.val :
            /\ FirstOf(ret.val[c].iqr_outliers, ret.val[c].iqr_outlier_count,
                       IqrFlagged(c, ret.val[c].iqr_lower_bound,
                                  ret.val[c].iqr_upper_bound))
            /\ Len(SeriesOf(c)) >= 1 =>
                   /\ FirstOf(ret.val[c].zscore_outliers,
                              ret.val[c].zscore_outlier_count,
                              ZscoreFlagged(c))
                   /\ FirstOf(ret.val[c].mad_outliers,
                              ret.val[c].mad_outlier_count, MadFlagged(c))
            /\ Len(ret.val[c].outlier_values) <= 100

\* detect_all has returned a list of 1000 indices with a count above 1000
\* and 100 outlier values
C14_Witness ==
    /\ Detected
    /\ ~ret.exc
    /\ \E c \in DOMAIN ret.val :
           /\ Len(ret.val[c].iqr_outliers) = 1000
           /\ ret.val[c].iqr_outlier_count > 1000
           /\ Len(ret.val[c].outlier_values) = 100

\* the number of rows of f in which no numeric column is null
FullNumericRows(f) ==
    Cardinality({r \in 1..NumRows(f) :
                    \A c \in Range(GetNumericColumns(f)) :
                        f[ColIndex(f, c)].vals[r] # Null})

\* the multivariate entry of an outlier result is absent or is the empty
\* record of a detection that was not fitted
NoMultivariate(m) == m = None \/ ~m[1].fitted

\* frames of one row less than, exactly, and one row more than 100,000
RowLimitFrames == {TwoFullRows(rows) : rows \in 99999..100001}

\* C15: a coordinator without cached results that is asked for the
\* outliers of a frame with skip_multivariate = False returns no
\* multivariate result exactly when the frame has fewer than two numeric
\* columns, or fewer than two rows without a null in them, or more than
\* 100,000 rows (a frame of exactly 100,000 rows with two such rows gets
\* a result): for the frame at hand and for frames around 100,000 rows.
C15_MultivariateSkipped ==
    LET Skipped(f, res) ==
            ~res.exc =>
                (NoMultivariate(res.val.multivariate)
                 <=> \/ Len(GetNumericColumns(f)) < 2
                     \/ FullNumericRows(f) < 2
                     \/ NumRows(f) > 100000)
    IN \A f \in {df} \cup RowLimitFrames :
           Skipped(f, analyze_outliers(Fresh, f, FALSE).res)

\* the one-column dataset [1, 2, 3, 4, 100]
Scenario1 ==
    <<Col(nA, Int64, <<Some(1), Some(2), Some(3), Some(4), Some(100)>>)>>

\* detect_all has been called on [1, 2, 3, 4, 100]
DetectedScenario1 == Detected /\ df = Scenario1

\* x is within a tenth of the target
Near(x, target) ==
    /\ RLe(RSub(target, Rat(1, 10)), x)
    /\ RLe(x, RAdd(target, Rat(1, 10)))

\* C16 as stated: on [1, 2, 3, 4, 100] the reported IQR bounds are
\* approximately [-1.5, 7.5], the value 100 (position 4) is flagged by the
\* IQR method and not by the z-score method at threshold 3.0.
C16_BoundsAsStated ==
    DetectedScenario1 =>
        /\ ~ret.exc
        /\ Near(ret.val[nA].iqr_lower_bound, Rat(-15, 10))
        /\ Near(ret.val[nA].iqr_upper_bound, Rat(75, 10))
        /\ 4 \in Range(ret.val[nA].iqr_outliers)
        /\ 4 \notin Range(ret.val[nA].zscore_outliers)

\* C16, amended: on [1, 2, 3, 4, 100] the reported IQR bounds are exactly
\* [-1, 7] (Q1 = 2 and Q3 = 4 by linear interpolation), the value 100
\* (position 4) is the only one flagged by the IQR method and the z-score
\* method at threshold 3.0 flags nothing.
C16_BoundsComputed ==
    DetectedScenario1 =>
        /\ ~ret.exc
        /\ ret.val[nA].iqr_lower_bound = RInt(-1)
        /\ ret.val[nA].iqr_upper_bound = RInt(7)
        /\ ret.val[nA].iqr_outliers = <<4>>
        /\ ret.val[nA].zscore_outliers = <<>>
        /\ ret.val[nA].zscore_threshold = RInt(3)

\* detect_all has returned on [1, 2, 3, 4, 100] with 100 among the
\* outlier values
C16_Witness ==
    /\ DetectedScenario1
    /\ ~ret.exc
    /\ RInt(100) \in Range(ret.val[nA].outlier_values)

(***************************************************************************)
(* Missing values.                                                         *)
(***************************************************************************)
\* the rows in which column i is null
NullRows(i) == {r \in 1..NumRows(df) : df[i].vals[r] = Null}

\* a percentage between 0 and 100
IsPercentage(x) == RLe(Zero, x) /\ RLe(x, RInt(100))

\* C17: for every column, the missing count plus the present count is the
\* number of rows of the dataset and the missing percentage lies in
\* [0, 100], being 0 for a dataset without rows; the null count and
\* percentage that the schema detector reports are those that the
\* missing-value analyzer reports.
C17_CountsAgree ==
    /\ call.op = "MissingAnalyzer.analyze_missing" =>
           \A i \in 1..Len(df) :
               /\ ret.val.columns[df[i].name].missing_count
                      = Cardinality(NullRows(i))
               /\ ret.val.columns[df[i].name].missing_count
                      + ret.val.columns[df[i].name].present_count
                      = NumRows(df)
               /\ IsPercentage(ret.val.columns[df[i].name].missing_percentage)
               /\ NumRows(df) = 0 =>
                      ret.val.columns[df[i].name].missing_percentage = Zero
               /\ DetectSchema(df)[df[i].name].null_count
                      = ret.val.columns[df[i].name].missing_count
               /\ DetectSchema(df)[df[i].name].null_percentage
                      = ret.val.columns[df[i].name].missing_percentage
    /\ call.op = "SchemaDetector.detect_schema" =>
           \A i \in 1..Len(df) :
               /\ ret.val[df[i].name].null_count = Cardinality(NullRows(i))
               /\ IsPercentage(ret.val[df[i].name].null_percentage)
               /\ NumRows(df) = 0 =>
                      ret.val[df[i].name].null_percentage = Zero
               /\ ret.val[df[i].name].null_count
                      = AnalyzeColumnsMissing(df)[df[i].name].missing_count
               /\ ret.val[df[i].name].null_percentage
                      = AnalyzeColumnsMissing(df)[df[i].name].missing_percentage

\* the missing-value analyzer has reported a column that is null in
\* some rows and present in others
C17_Witness ==
    /\ call.op = "MissingAnalyzer.analyze_missing"
    /\ \E i \in 1..Len(df) :
           /\ ret.val.columns[df[i].name].missing_count > 0
           /\ ret.val.columns[df[i].name].present_count > 0
           /\ ret.val.columns[df[i].name].missing_percentage
                  = DetectSchema(df)[df[i].name].null_percentage

\* the missing-value analyzer has been called on the frame
MissingAnalyzed == call.op = "MissingAnalyzer.analyze_missing"

\* the indices of the columns that are null in row r
NullColumns(r) == {i \in 1..Len(df) : df[i].vals[r] = Null}

\* the rows whose null columns are exactly those named by the tuple
RowsOfPattern(columns) ==
    {r \in 1..NumRows(df) :
        NullColumns(r) = {i \in 1..Len(df) : df[i].name \in Range(columns)}}

\* the names of the tuple follow the column order of the dataset, without
\* repetition
InDatasetOrder(columns) ==
    \A j, k \in 1..Len(columns) :
        j < k => ColIndex(df, columns[j]) < ColIndex(df, columns[k])

\* C18: the pattern mining returns at most 20 patterns in non-increasing
\* order of count; each pattern is the non-empty tuple, in dataset column
\* order, of the columns that are null in some row, its count is the
\* number of rows whose null columns are exactly those, and its
\* percentage is count / rows x 100; no pattern is returned twice, and a
\* pattern that is left out occurs in no more rows than any returned one.
\* On two columns A and B that are null together in the same 3 of 10 rows
\* and nowhere else, the one pattern is ([A, B], 3, 30.0).
C18_Patterns ==
    MissingAnalyzed =>
        /\ Len(ret.val.patterns) <= 20
        /\ \A k \in 1..Len(ret.val.patterns) :
               /\ ret.val.patterns[k].columns # <<>>
               /\ Range(ret.val.patterns[k].columns) \subseteq Range(Columns(df))
               /\ InDatasetOrder(ret.val.patterns[k].columns)
               /\ ret.val.patterns[k].count >= 1
               /\ ret.val.patterns[k].count
                      = Cardinality(RowsOfPattern(ret.val.patterns[k].columns))
               /\ ret.val.patterns[k].percentage
                      = Rat(ret.val.patterns[k].count * 100, NumRows(df))
               /\ \A j \in 1..(k - 1) :
                      /\ ret.val.patterns[j].count >= ret.val.patterns[k].count
                      /\ ret.val.patterns[j].columns
                             # ret.val.patterns[k].columns
        /\ \A r \in 1..NumRows(df) :
               \/ NullColumns(r) = {}
               \/ \E k \in 1..Len(ret.val.patterns) :
                      r \in RowsOfPattern(ret.val.patterns[k].columns)
               \/ /\ Len(ret.val.patterns) = 20
                  /\ \A k \in 1..20 :
                         ret.val.patterns[k].count
                             >= Cardinality({q \in 1..NumRows(df) :
                                    NullColumns(q) = NullColumns(r)})
        /\ df = Scenario3 =>
               ret.val.patterns =
                   <<[columns |-> <<nA, nB>>, count |-> 3,
                      percentage |-> RInt(30)]>>

\* the pattern mining has returned 20 patterns of a frame with more, the
\* first of them more frequent than the last
C18_Witness ==
    /\ MissingAnalyzed
    /\ Len(ret.val.patterns) = 20
    /\ ret.val.patterns[1].count > ret.val.patterns[20].count
    /\ \E r \in 1..NumRows(df) :
           /\ NullColumns(r) # {}
           /\ \A k \in 1..20 :
                  r \notin RowsOfPattern(ret.val.patterns[k].columns)

(***************************************************************************)
(* The correlation matrix.                                                 *)
(***************************************************************************)
\* get_correlation_matrix has been called with method pearson or spearman
MatrixReturned ==
    /\ call.op = "CorrelationAnalyzer.get_correlation_matrix"
    /\ call.method \in {"pearson", "spearman"}

\* the rows in which the numeric columns i and j of df are both non-null
BothPresent(i, j) ==
    {r \in 1..NumRows(df) :
        /\ df[ColIndex(df, GetNumericColumns(df)[i])].vals[r] # Null
        /\ df[ColIndex(df, GetNumericColumns(df)[j])].vals[r] # Null}

\* numeric column i takes a single value in the given rows
ConstantOn(i, rows) ==
    Cardinality({df[ColIndex(df, GetNumericColumns(df)[i])].vals[r] :
                    r \in rows}) <= 1

\* C19: for method pearson or spearman the matrix that
\* get_correlation_matrix returns is square over the numeric columns, has
\* 1.0 on its diagonal, is symmetric and has every entry in [-1, 1]; the
\* entry of a pair without a correlation (fewer than two joint rows, or a
\* column that is constant on them) is 0.0.
C19_MatrixShape ==
    MatrixReturned =>
        /\ ret.val.columns = GetNumericColumns(df)
        /\ Len(ret.val.matrix) = Len(ret.val.columns)
        /\ \A i \in 1..Len(ret.val.matrix) :
               /\ Len(ret.val.matrix[i]) = Len(ret.val.columns)
               /\ ret.val.matrix[i][i] = UnitCoefficient
               /\ \A j \in 1..Len(ret.val.matrix) :
                      /\ ret.val.matrix[i][j] = ret.val.matrix[j][i]
                      /\ ret.val.matrix[i][j].sign \in {-1, 0, 1}
                      /\ RLe(Zero, ret.val.matrix[i][j].sq)
                      /\ RLe(ret.val.matrix[i][j].sq, RInt(1))
                      /\ (i # j /\ \/ Cardinality(BothPresent(i, j)) < 2
                                   \/ ConstantOn(i, BothPresent(i, j))
                                   \/ ConstantOn(j, BothPresent(i, j)))
                             => ret.val.matrix[i][j] = ZeroCoefficient

\* a matrix of three numeric columns has been returned with an entry
\* strictly between 0 and 1 below the diagonal, a negative entry and the
\* entry 0.0 of a pair without a correlation
C19_Witness ==
    /\ MatrixReturned
    /\ Len(ret.val.matrix) = 3
    /\ \E i, j \in 1..3 :
           /\ j < i
           /\ ret.val.matrix[i][j].sign = 1
           /\ ret.val.matrix[i][j].sq \notin {Zero, RInt(1)}
    /\ \E i, j \in 1..3 : ret.val.matrix[i][j].sign = -1
    /\ \E i, j \in 1..3 : ret.val.matrix[i][j] = ZeroCoefficient

(***************************************************************************)
(* The normality consensus.                                                *)
(***************************************************************************)
\* test_normality has returned for a numeric column of the frame
NormalityTested ==
    /\ call.op = "DistributionAnalyzer.test_normality"
    /\ ret.val # None

\* the number of non-null values of the tested column
TestedValues == Len(SeriesOf(call.column))

\* the tests that were applicable to the tested column and did not raise
RanTests ==
    {t \in Range(TestNames) :
        /\ call.outcome[t] # "raised"
        /\ t = "shapiro_wilk" => TestedValues <= 5000
        /\ t = "dagostino_pearson" => TestedValues >= 8}

\* C20: for a numeric column with at least 3 non-null values is_normal is
\* true if and only if at least half of the tests that ran voted normal;
\* a test that was not applicable (Shapiro-Wilk above 5,000 values,
\* D'Agostino-Pearson below 8) or that raised counts neither as a vote
\* nor in the denominator; is_normal is false when no test ran and when
\* the column has fewer than 3 values.
C20_HalfOfRanTests ==
    NormalityTested =>
        /\ TestedValues >= 3 =>
               /\ ret.val[1].is_normal
                      <=> /\ RanTests # {}
                          /\ 2 * Cardinality({t \in RanTests :
                                     call.outcome[t] = "normal"})
                                 >= Cardinality(RanTests)
               /\ ret.val[1].normal_test_count = Cardinality(RanTests)
               /\ ret.val[1].normal_votes
                      = Cardinality({t \in RanTests :
                                        call.outcome[t] = "normal"})
        /\ TestedValues < 3 => ~ret.val[1].is_normal

\* on a column of more than 5,000 values, with a Shapiro-Wilk test that
\* would have accepted and an Anderson-Darling test that raised, one of
\* the two remaining tests accepted and is_normal is true
C20_Witness ==
    /\ NormalityTested
    /\ TestedValues > 5000
    /\ call.outcome["shapiro_wilk"] = "normal"
    /\ call.outcome["anderson_darling"] = "raised"
    /\ call.outcome["dagostino_pearson"] = "rejected"
    /\ call.outcome["kolmogorov_smirnov"] = "normal"
    /\ ret.val[1].is_normal
    /\ ret.val[1].normal_test_count = 2

(***************************************************************************)
(* The distribution type.                                                  *)
(***************************************************************************)
\* analyze_distributions has returned
DistributionsAnalyzed == call.op = "DistributionAnalyzer.analyze_all"

\* the names of the types in the order of the decision, and for each
\* whether its rule matches the column c with the reported record info
TypeNames ==
    <<"normal", "approximately_normal", "right_skewed", "left_skewed",
      "heavy_tailed", "light_tailed", "discrete", "uniform", "exponential",
      "unknown">>
RuleMatches(c, info) ==
    <<info.is_normal,
      SurdAbsLt(info.skewness, Rat(1, 2)) /\ FloatAbsLt(info.kurtosis, Rat(1, 2)),
      SurdGt(info.skewness, RInt(1)),
      SurdLtNeg(info.skewness, RInt(1)),
      FloatLt(RInt(3), info.kurtosis),
      FloatLt(info.kurtosis, RInt(0 - 1)),
      NUnique(SeriesOf(c)) < 10,
      CvBelowTenth(SeriesOf(c)),
      (\A i \in DOMAIN SeriesOf(c) : SeriesOf(c)[i] >= 0)
          /\ SurdGt(info.skewness, Rat(1, 2)),
      TRUE>>
FirstMatch(matches) ==
    CHOOSE i \in DOMAIN matches :
        matches[i] /\ \A j \in 1..(i - 1) : ~matches[j]

\* C21: distribution_type is "unknown" for every column with fewer than 10
\* non-null values; otherwise it is the type of the first rule that matches
\* in the order normal, approximately_normal, right_skewed, left_skewed,
\* heavy_tailed, light_tailed, discrete, uniform, exponential, unknown.
C21_FirstMatchingRule ==
    DistributionsAnalyzed =>
        \A c \in DOMAIN ret.val :
            ret.val[c].distribution_type
                = IF Len(SeriesOf(c)) < 10 THEN "unknown"
                  ELSE TypeNames[FirstMatch(RuleMatches(c, ret.val[c]))]

\* a column of at least ten values was typed light_tailed although the
\* rule for discrete data matches it too
C21_Witness ==
    /\ DistributionsAnalyzed
    /\ \E c \in DOMAIN ret.val :
           /\ Len(SeriesOf(c)) >= 10
           /\ ret.val[c].distribution_type = "light_tailed"
           /\ NUnique(SeriesOf(c)) < 10

(***************************************************************************)
(* The moments of the distribution record and of the numeric statistics.   *)
(***************************************************************************)
\* the skewness and the kurtosis that _analyze_numeric reports for column c
NumericSkewness(c) ==
    CalculateSkewness(SeriesOf(c), Mean(SeriesOf(c)), Var(SeriesOf(c))[1],
                      Len(SeriesOf(c)))
NumericKurtosis(c) ==
    CalculateKurtosis(SeriesOf(c), Mean(SeriesOf(c)), Var(SeriesOf(c))[1],
                      Len(SeriesOf(c)))

\* C24: for every numeric column with at least 4 non-null values and
\* non-zero variance, the skewness and kurtosis of the column's
\* DistributionInfo equal the skewness and kurtosis of its NumericStats.
C24_SameMoments ==
    DistributionsAnalyzed =>
        \A c \in DOMAIN ret.val :
            (Len(SeriesOf(c)) >= 4 /\ NUnique(SeriesOf(c)) > 1)
                => /\ ret.val[c].skewness = NumericSkewness(c)
                   /\ ret.val[c].kurtosis = NumericKurtosis(c)

(***************************************************************************)
(* The pattern-based semantic types.                                       *)
(***************************************************************************)
\* detect_schema has returned
SchemaDetected == call.op = "SchemaDetector.detect_schema"

\* the name of column c has none of the keywords of the text columns
NoNameKeyword(c) ==
    ~AnyIn({kEmail, kUrl, kLink, kWebsite, kPhone, kTel, kMobile, kZip,
            kPostal, kIp}, StrLower(c))

\* the sampled values of column c: its first (up to) 100 non-null values
SampleOf(c) == Take(SeriesOf(c), 100)

\* the patterns in the order in which they are tried, and the number of
\* sampled values of column c that pattern k matches
PatternTypes == <<"email", "url", "phone", "ip_address", "zipcode">>
PatternMatches(c, k) ==
    Cardinality({i \in DOMAIN SampleOf(c) :
                    CASE k = 1 -> MatchEmail(SampleOf(c)[i])
                      [] k = 2 -> MatchUrl(SampleOf(c)[i])
                      [] k = 3 -> MatchPhone(SampleOf(c)[i])
                      [] k = 4 -> MatchIp(SampleOf(c)[i])
                      [] k = 5 -> MatchZipcode(SampleOf(c)[i])})

\* the type of the first pattern whose share of the sample is accepted
FirstPattern(c, Accepted(_, _)) ==
    LET accepted == {k \in DOMAIN PatternTypes :
                        Accepted(PatternMatches(c, k), Len(SampleOf(c)))}
    IN IF accepted = {} THEN "none"
       ELSE PatternTypes[CHOOSE k \in accepted : \A j \in accepted : k <= j]

\* a text or categorical column without a name keyword and with a value
PatternTyped(c) ==
    /\ ret.val[c].data_type \in {"text", "categorical"}
    /\ NoNameKeyword(c)
    /\ Len(SeriesOf(c)) > 0

\* C22: a text or categorical column whose name has no keyword gets the
\* type of the first pattern (email, url, phone, ip_address, zipcode) that
\* at least 80% of its up to 100 sampled non-null values match, and no
\* pattern type when every pattern matches fewer than 80%; a share of
\* exactly 80% is accepted.
C22_AtLeastEightyPercent ==
    SchemaDetected =>
        \A c \in DOMAIN ret.val :
            PatternTyped(c) =>
                ret.val[c].semantic_type
                    = FirstPattern(c, LAMBDA m, n : 10 * m >= 8 * n)

\* the same with the share that the code accepts: more than 80%
MoreThanEightyPercent ==
    SchemaDetected =>
        \A c \in DOMAIN ret.val :
            PatternTyped(c) =>
                ret.val[c].semantic_type
                    = FirstPattern(c, LAMBDA m, n : 10 * m > 8 * n)

(***************************************************************************)
(* The dispatch of the statistics and the data type of the schema.         *)
(***************************************************************************)
\* analyze_column has been called on a column of the frame
ColumnAnalyzed == call.op = "StatisticsAnalyzer.analyze_column"

\* the column that was analyzed and the data type SchemaDetector gives it
AnalyzedColumn == df[ColIndex(df, call.column)]
SchemaTypeOfAnalyzed ==
    DetectDataType(AnalyzedColumn.vals, AnalyzedColumn.dtype)

\* the statistics record that belongs to a data type
StatsOfType(data_type) ==
    CASE data_type = "numeric" -> "NumericStats"
      [] data_type = "datetime" -> "DatetimeStats"
      [] data_type = "categorical" -> "CategoricalStats"
      [] data_type = "text" -> "TextStats"

\* C23: for every column that SchemaDetector classifies as numeric,
\* datetime, categorical or text, analyze_column returns NumericStats,
\* DatetimeStats, CategoricalStats or TextStats respectively.
C23_DispatchAgrees ==
    (/\ ColumnAnalyzed
     /\ SchemaTypeOfAnalyzed \in {"numeric", "datetime", "categorical", "text"})
        => /\ ~ret.exc
           /\ ret.val.type = StatsOfType(SchemaTypeOfAnalyzed)

\* the same for the columns whose dtype is not Categorical, where
\* analyze_column returns
DispatchAgreesOffCategorical ==
    (/\ ColumnAnalyzed
     /\ SchemaTypeOfAnalyzed \in {"numeric", "datetime", "categorical", "text"}
     /\ ~StrIn(tCategorical, AnalyzedColumn.dtype)
     /\ ~ret.exc)
        => ret.val.type = StatsOfType(SchemaTypeOfAnalyzed)


(***************************************************************************)
(* Requests that differ in their arguments: analyze_outliers with and      *)
(* without the multivariate detection, analyze_distributions with the      *)
(* default and with a coarser histogram (as `datatui distributions --bins` *)
(* passes it), and the composite requests that call them.                  *)
(***************************************************************************)
ArgFrames == {f \in CoordFrames : GetNumericColumns(f) # <<>>}

InitArgs == InitOn(ArgFrames)

AnalyzeDistributionsBins == AnalyzeDistributionsWith(BinCounts)

NextArgs ==
    \/ AnalyzeOutliers
    \/ AnalyzeDistributionsBins
    \/ AnalyzeAll
    \/ GetColumnAnalysis
    \/ GetDataQualityScore
    \/ ClearCache

SpecArgs == InitArgs /\ [][NextArgs]_vars

\* the stored outliers record was computed without the multivariate
\* detection
StoredWithoutMultivariate ==
    /\ "outliers" \in DOMAIN cache
    /\ cache["outliers"].multivariate = None

\* the outlier part that get_column_analysis takes from an outliers record
ColumnPart(outliers, column) ==
    IF column \in DOMAIN outliers.univariate
    THEN <<outliers.univariate[column]>> ELSE None

PatternCountSum ==
    SumSeq([k \in 1..Len(ret.val.patterns) |-> ret.val.patterns[k].count])

\* the distinct non-empty sets of jointly null columns of the frame
NullColumnSets == {NullColumns(r) : r \in 1..NumRows(df)} \ {{}}

\* C28: in every analyze_missing result complete_rows + incomplete_rows is
\* the number of rows, neither of them is negative, and the counts of the
\* returned patterns add up to at most incomplete_rows, and to exactly
\* incomplete_rows when the frame has at most 20 distinct non-empty sets of
\* jointly null columns; for a frame without columns complete_rows is the
\* row count and no pattern is returned.
C28_RowCounts ==
    MissingAnalyzed =>
        /\ ret.val.complete_rows + ret.val.incomplete_rows = NumRows(df)
        /\ ret.val.complete_rows >= 0
        /\ ret.val.incomplete_rows >= 0
        /\ PatternCountSum <= ret.val.incomplete_rows
        /\ Cardinality(NullColumnSets) <= 20 =>
               PatternCountSum = ret.val.incomplete_rows
        /\ Len(df) = 0 =>
               /\ ret.val.complete_rows = NumRows(df)
               /\ ret.val.patterns = <<>>

\* a frame with more than 20 null patterns and complete rows has been
\* analyzed: the returned counts add up to less than incomplete_rows
C28_Witness ==
    /\ MissingAnalyzed
    /\ Cardinality(NullColumnSets) > 20
    /\ ret.val.complete_rows > 0
    /\ 0 < PatternCountSum
    /\ PatternCountSum < ret.val.incomplete_rows


(***************************************************************************)
(* The columns listed by get_outlier_summary.                              *)
(***************************************************************************)
\* the columns of a detect_all result whose combined percentage is above 0
WithPositivePercentage(outliers) ==
    {c \in DOMAIN outliers : RLt(Zero, outliers[c].outlier_percentage)}

\* the columns of a detect_all result that the IQR or the z-score method
\* flags
IqrOrZscoreFlagged(outliers) ==
    {c \in DOMAIN outliers : \/ outliers[c].iqr_outlier_count > 0
                             \/ outliers[c].zscore_outlier_count > 0}

\* C29: in the summary of a stored outliers record, columns_with_outliers
\* lists, once each, exactly the numeric columns with iqr_outlier_count > 0
\* or zscore_outlier_count > 0, columns_with_outliers_count is their
\* number, and all of them have outlier_percentage > 0.
C29_ColumnsWithOutliers ==
    "outliers" \in DOMAIN cache =>
        /\ DOMAIN cache["outliers"].univariate
               = Range(GetNumericColumns(df))
        /\ cache["outliers"].summary.outliers_by_column
               = cache["outliers"].univariate
        /\ Range(cache["outliers"].summary.columns_with_outliers)
               = IqrOrZscoreFlagged(cache["outliers"].univariate)
        /\ Len(cache["outliers"].summary.columns_with_outliers)
               = Cardinality(IqrOrZscoreFlagged(cache["outliers"].univariate))
        /\ cache["outliers"].summary.columns_with_outliers_count
               = Len(cache["outliers"].summary.columns_with_outliers)
        /\ IqrOrZscoreFlagged(cache["outliers"].univariate)
               \subseteq WithPositivePercentage(cache["outliers"].univariate)

\* get_data_quality_score has run on a frame with a column that only the
\* MAD method flags: its percentage is above 0 and the outlier score below
\* 100, and the summary does not list it
C29_Witness ==
    /\ call.op = "get_data_quality_score"
    /\ ~ret.exc
    /\ "outliers" \in DOMAIN cache
    /\ ret.val.outlier_score < Round2(RInt(100))
    /\ \E c \in DOMAIN cache["outliers"].univariate :
           /\ cache["outliers"].univariate[c].mad_outlier_count > 0
           /\ cache["outliers"].univariate[c].iqr_outlier_count = 0
           /\ cache["outliers"].univariate[c].zscore_outlier_count = 0
           /\ c \in WithPositivePercentage(cache["outliers"].univariate)
           /\ c \notin Range(cache["outliers"].summary.columns_with_outliers)


(***************************************************************************)
(* DataLoader (src/datatui/core/loader.py).  The loader is its `info`      *)
(* field, a reference (0 for None) into the DatasetInfo objects created so *)
(* far.  A file is what the reads of it do: whether it exists, its format, *)
(* whether polars reads it as strict UTF-8, as lossy UTF-8 and after the   *)
(* conversion from the detected encoding, and whether it has rows.  The    *)
(* frame itself, the timing and the lazy mode are not modelled.            *)
(***************************************************************************)
\* loads per loader
MaxLoads == 2

pA == "a.csv"
pB == "b.csv"
Paths == {pA, pB}
Formats == {"csv", "tsv", "parquet", "xml"}

LossyWarning == "File contained invalid UTF-8 bytes"
EmptyWarning == "Dataset is empty (0 rows)"

Files ==
    [path : Paths, exists : BOOLEAN, format : Formats, strict : BOOLEAN,
     lossy : BOOLEAN, converted : BOOLEAN, empty : BOOLEAN]

\* the objects with `warning` appended to the warnings of object `ref`
Warned(objects, ref, warning) ==
    [objects EXCEPT ![ref].warnings = Append(@, warning)]

\* DataLoader._load_csv: the reads it tries, the encoding it returns and
\* the DatasetInfo objects after it
LoadCsv(self, file) ==
    IF file.strict
    THEN [exc |-> FALSE, encoding |-> "utf-8", tried |-> <<"utf8">>,
          objects |-> self.objects]
    ELSE IF file.lossy
    THEN [exc |-> FALSE, encoding |-> "utf-8-lossy",
          tried |-> <<"utf8", "utf8-lossy">>,
          objects |-> IF self.info # 0
                      THEN Warned(self.objects, self.info, LossyWarning)
                      ELSE self.objects]
    ELSE IF file.converted
    THEN [exc |-> FALSE, encoding |-> "detected",
          tried |-> <<"utf8", "utf8-lossy", "converted">>,
          objects |-> self.objects]
    ELSE [exc |-> TRUE, encoding |-> "",
          tried |-> <<"utf8", "utf8-lossy", "converted">>,
          objects |-> self.objects]

\* the other readers: one read, no encoding
LoadBinary(self, file) ==
    [exc |-> ~file.strict, encoding |-> "", tried |-> <<"binary">>,
     objects |-> self.objects]

\* DataLoader._validate_dataframe, reduced to the warning about no rows
ValidateDataframe(info, file) ==
    IF file.empty
    THEN [info EXCEPT !.warnings = Append(@, EmptyWarning)]
    ELSE info

\* DataLoader.load: [info, objects, res, tried]
LoaderLoad(self, file) ==
    LET Failed(tried) ==
            [info |-> self.info, objects |-> self.objects, res |-> Raised,
             tried |-> tried]
        Loaded(read) ==
            IF read.exc THEN Failed(read.tried)
            ELSE [info |-> Len(read.objects) + 1,
                  objects |->
                      Append(read.objects,
                             ValidateDataframe(
                                 [file_path |-> file.path,
                                  format |-> file.format,
                                  encoding |-> read.encoding,
                                  warnings |-> <<>>], file)),
                  res |-> Ok(file.path),
                  tried |-> read.tried]
    IN IF ~file.exists THEN Failed(<<>>)
       ELSE IF file.format \in {"csv", "tsv"} THEN Loaded(LoadCsv(self, file))
       ELSE IF file.format = "parquet" THEN Loaded(LoadBinary(self, file))
       ELSE Failed(<<>>)

CallLoad(path, tried) ==
    [op |-> "load", skip |-> FALSE, column |-> <<>>, path |-> path,
     tried |-> tried]

\* DataLoader.__init__
NewLoader ==
    /\ loader' = [info |-> 0, objects |-> <<>>]
    /\ call' = Call("DataLoader.__init__", FALSE, <<>>)
    /\ ret' = Ok(NoValue)
    /\ UNCHANGED <<df, cache, computed, threads, tui>>

\* loader.load(file)
Load ==
    \E file \in Files :
        /\ Len(loader.objects) < MaxLoads
        /\ loader' = [info |-> LoaderLoad(loader, file).info,
                      objects |-> LoaderLoad(loader, file).objects]
        /\ call' = CallLoad(file.path, LoaderLoad(loader, file).tried)
        /\ ret' = LoaderLoad(loader, file).res
        /\ UNCHANGED <<df, cache, computed, threads, tui>>

\* loader.get_info()
GetInfo ==
    /\ ret' = Ok(IF loader.info = 0 THEN None
                 ELSE <<loader.objects[loader.info]>>)
    /\ call' = Call("get_info", FALSE, <<>>)
    /\ UNCHANGED <<df, cache, computed, loader, threads, tui>>

InitLoader ==
    /\ df = <<>>
    /\ cache = EmptyCache
    /\ computed = NoneComputed
    /\ call = Call("DataLoader.__init__", FALSE, <<>>)
    /\ ret = Ok(NoValue)
    /\ loader = [info |-> 0, objects |-> <<>>]
    /\ threads = Absent
    /\ tui = Absent

NextLoader ==
    \/ NewLoader
    \/ Load
    \/ GetInfo

SpecLoader == InitLoader /\ [][NextLoader]_vars

\* get_info() has returned the DatasetInfo of a load that went through the
\* lossy read
LossyInfoReturned ==
    /\ call.op = "get_info"
    /\ ret.val # None
    /\ ret.val[1].encoding = "utf-8-lossy"

\* C30: a CSV or TSV load tries the strict UTF-8 read, then the lossy one,
\* then the read of the converted file, and stops at the first that
\* succeeds; and the DatasetInfo that get_info() returns after a load that
\* went through the lossy read holds the warning 'File contained invalid
\* UTF-8 bytes'.
C30_LossyWarningRecorded ==
    /\ (call.op = "load" /\ call.tried # <<>> /\ call.tried # <<"binary">>)
           => /\ \E n \in 1..3 :
                     call.tried = SubSeq(<<"utf8", "utf8-lossy", "converted">>,
                                         1, n)
              /\ (~ret.exc /\ loader.info # 0) =>
                     loader.objects[loader.info].encoding =
                         CASE Len(call.tried) = 1 -> "utf-8"
                           [] Len(call.tried) = 2 -> "utf-8-lossy"
                           [] OTHER -> "detected"
              /\ ret.exc => Len(call.tried) = 3
    /\ LossyInfoReturned => LossyWarning \in Range(ret.val[1].warnings)

\* the fallback order alone
FallbackOrder ==
    (call.op = "load" /\ call.tried # <<>> /\ call.tried # <<"binary">>)
        => /\ \E n \in 1..3 :
                  call.tried = SubSeq(<<"utf8", "utf8-lossy", "converted">>,
                                      1, n)
           /\ ret.exc => Len(call.tried) = 3

\* the loader never holds a DatasetInfo of a lossy load with the warning
WarningNeverInCurrentInfo ==
    loader.info # 0 =>
        LossyWarning \notin Range(loader.objects[loader.info].warnings)


(***************************************************************************)
(* The worker threads of the screens (src/datatui/tui/screens).  Each      *)
(* screen starts a thread worker on mount that calls the shared            *)
(* app.analyzer; `exclusive` cancels only earlier workers of the same      *)
(* screen, so the workers of two screens run side by side.  A request of   *)
(* a worker is three steps of its thread: the test `kind in self._cache`,  *)
(* the detection, and the assignment self._cache[kind] = result.  Other    *)
(* threads run between the steps.                                          *)
(***************************************************************************)
Workers == {"overview", "schema"}

\* the requests that the worker of a screen makes of the coordinator, in
\* order; get_data_quality_score requests missing, outliers and schema
WorkerRequests ==
    [t \in Workers |->
        IF t = "overview"
        THEN <<"schema", "missing", "outliers", "schema", "missing">>
        ELSE <<"schema">>]

\* a test that finds no entry, whatever is stored
InCacheNever(c, kind) == kind \in DOMAIN c \ Kinds

\* kind in self._cache
InCache(c, kind) == kind \in DOMAIN c

\* what the detector of a kind returns to a request of a worker
DetectorResult(kind) ==
    CASE kind = "schema" ->
             analyze_schema(Fresh, df).res
      [] kind = "missing" ->
             analyze_missing(Fresh, df).res
      [] kind = "outliers" ->
             analyze_outliers(Fresh, df, TRUE).res

\* the kind that worker t is requesting
Requested(t) == WorkerRequests[t][threads[t].at]

\* worker t is between the test and the assignment of a request for kind
InWindow(t, kind) ==
    /\ threads[t].pc \in {"detect", "store"}
    /\ Requested(t) = kind

\* worker t after a request: the next request, or call_from_thread(render)
AfterRequest(t, th) ==
    IF th.at = Len(WorkerRequests[t])
    THEN [th EXCEPT !.pc = "rendered", !.result = None]
    ELSE [th EXCEPT !.pc = "test", !.at = @ + 1, !.result = None]

\* on_mount -> load_data -> _load_data_worker: the thread starts
Mount(t) ==
    /\ threads[t].pc = "unmounted"
    /\ threads' = [threads EXCEPT ![t].pc = "test", ![t].at = 1]
    /\ UNCHANGED <<df, cache, computed, call, ret, loader, tui>>

\* if kind in self._cache: return self._cache[kind].  `overlapped` records
\* for the history that another worker was in its window for the same kind
\* when this one entered its own
TestCache(t) ==
    /\ threads[t].pc = "test"
    /\ threads' =
           IF InCache(cache, Requested(t))
           THEN [threads EXCEPT ![t] = AfterRequest(t, @)]
           ELSE [u \in Workers |->
                    IF u = t
                    THEN [threads[t] EXCEPT
                              !.pc = "detect",
                              !.overlapped =
                                  IF \E w \in Workers \ {t} :
                                         InWindow(w, Requested(t))
                                  THEN @ \cup {Requested(t)} ELSE @]
                    ELSE IF InWindow(u, Requested(t))
                    THEN [threads[u] EXCEPT
                              !.overlapped = @ \cup {Requested(t)}]
                    ELSE threads[u]]
    /\ UNCHANGED <<df, cache, computed, call, ret, loader, tui>>

\* result = detector...(); an exception goes to the worker's handler,
\* which calls call_from_thread(_render_error)
RunDetector(t) ==
    /\ threads[t].pc = "detect"
    /\ threads' =
           IF DetectorResult(Requested(t)).exc
           THEN [threads EXCEPT ![t].pc = "error"]
           ELSE [threads EXCEPT
                     ![t].pc = "store",
                     ![t].result = <<DetectorResult(Requested(t)).val>>]
    /\ UNCHANGED <<df, cache, computed, call, ret, loader, tui>>

\* self._cache[kind] = result; return result
StoreResult(t) ==
    /\ threads[t].pc = "store"
    /\ cache' = [k \in DOMAIN cache \cup {Requested(t)} |->
                    IF k = Requested(t) THEN threads[t].result[1]
                    ELSE cache[k]]
    /\ computed' = [computed EXCEPT ![Requested(t)] = @ + 1]
    /\ threads' = [threads EXCEPT ![t] = AfterRequest(t, @)]
    /\ UNCHANGED <<df, call, ret, loader, tui>>

InitWorkers ==
    /\ df \in CoordFrames
    /\ cache = EmptyCache
    /\ computed = NoneComputed
    /\ call = Call("__init__", FALSE, <<>>)
    /\ ret = Ok(NoValue)
    /\ loader = Absent
    /\ threads = [t \in Workers |->
                     [pc |-> "unmounted", at |-> 0, result |-> None,
                      overlapped |-> {}]]
    /\ tui = Absent

NextWorkers ==
    \E t \in Workers :
        \/ Mount(t)
        \/ TestCache(t)
        \/ RunDetector(t)
        \/ StoreResult(t)

SpecWorkers == InitWorkers /\ [][NextWorkers]_vars

\* C25: on a coordinator shared by the workers of the overview and the
\* schema screen, a kind has an entry exactly when it has been computed,
\* and it is computed more than once only when the two workers were
\* between the test and the assignment of a request for that kind at the
\* same time; the second assignment then replaces the entry of the first.
C25_RecomputedWhenInterleaved ==
    \A k \in Kinds :
        /\ (computed[k] >= 1) <=> (k \in DOMAIN cache)
        /\ computed[k] >= 2 =>
               \A t \in Workers : k \in threads[t].overlapped
        /\ (\A t \in Workers : k \notin threads[t].overlapped) =>
               computed[k] <= 1

\* both workers have run to their render call and the schema was detected
\* and stored twice
C25_Witness ==
    /\ \A t \in Workers : threads[t].pc = "rendered"
    /\ computed["schema"] = 2
    /\ "schema" \in DOMAIN cache
    /\ Len(df) > 0


(***************************************************************************)
(* DatatuiApp (src/datatui/tui/app.py).  The load worker is a thread; the  *)
(* handlers of key and list events and the callbacks passed to             *)
(* call_from_thread run on the UI thread, one at a time, between any two   *)
(* steps of the worker.  Key presses and list selections wait in          *)
(* `pending` until the UI thread handles them.  `stack` is the screen      *)
(* stack above the default screen.  push_screen of a name that is not      *)
(* installed raises.                                                       *)
(***************************************************************************)
ScreenNames ==
    {"overview", "schema", "statistics", "missing", "outliers",
     "correlations", "distributions", "visualize"}

\* a name that a binding or list item could carry but SCREENS lacks
NoScreen == "settings"

\* events waiting for the UI thread
MaxPending == 2

\* the events of the bindings and of the navigation list
Events ==
    [op : {"action_switch_screen"}, screen_name : ScreenNames \cup {NoScreen}]
    \cup [op : {"action_refresh_data"}, screen_name : {""}]

CallScreen(op, screen_name, pushed) ==
    [op |-> op, skip |-> FALSE, column |-> screen_name, pushed |-> pushed]

\* self.pop_screen() inside try/except: nothing above the default screen
\* raises, which is swallowed
PopScreen(stack) ==
    IF stack = <<>> THEN stack ELSE SubSeq(stack, 1, Len(stack) - 1)

\* a step of the app that changes only tui and records the event
TuiStep(new, event) ==
    /\ tui' = new
    /\ call' = event
    /\ UNCHANGED <<df, cache, computed, ret, loader, threads>>

\* _load_dataset_worker: load_dataset and DataAnalyzer(df), or an exception
WorkerLoad ==
    /\ tui.worker = "loading"
    /\ \E ok \in BOOLEAN :
           TuiStep([tui EXCEPT !.worker = IF ok THEN "built" ELSE "raised"],
                   CallScreen("_load_dataset_worker", "", FALSE))

\* self.analyzer = analyzer
WorkerAssign ==
    /\ tui.worker = "built"
    /\ TuiStep([tui EXCEPT !.analyzer = TRUE, !.worker = "assigned"],
               CallScreen("_load_dataset_worker", "", FALSE))

\* self.call_from_thread(self._on_data_loaded, ...): the UI thread runs
\* _on_data_loaded
OnDataLoaded ==
    /\ tui.worker = "assigned"
    /\ TuiStep([tui EXCEPT !.installed = ScreenNames,
                           !.stack = Append(@, "overview"),
                           !.current = "overview",
                           !.worker = "loaded"],
               CallScreen("_on_data_loaded", "overview", TRUE))

\* self.call_from_thread(self._on_load_error, ...)
OnLoadError ==
    /\ tui.worker = "raised"
    /\ TuiStep([tui EXCEPT !.worker = "failed"],
               CallScreen("_on_load_error", "", FALSE))

\* a key is pressed or a list item selected
PostEvent ==
    /\ Len(tui.pending) < MaxPending
    /\ \E event \in Events :
           TuiStep([tui EXCEPT !.pending = Append(@, event)],
                   CallScreen("post", event.screen_name, FALSE))

\* action_switch_screen(screen_name), from a key binding or from
\* on_list_view_selected; `handled` is the app without the event
SwitchScreen(handled, screen_name) ==
    IF \/ ~handled.analyzer
       \/ screen_name = handled.current
       \/ screen_name \notin ScreenNames
    THEN TuiStep(handled,
                 CallScreen("action_switch_screen", screen_name, FALSE))
    ELSE IF screen_name \notin handled.installed
    THEN TuiStep([handled EXCEPT !.stack = PopScreen(@)],
                 CallScreen("action_switch_screen", screen_name, TRUE))
    ELSE TuiStep([handled EXCEPT
                      !.stack = Append(PopScreen(@), screen_name),
                      !.current = screen_name],
                 CallScreen("action_switch_screen", screen_name, TRUE))

ActionSwitchScreen ==
    /\ tui.pending # <<>>
    /\ Head(tui.pending).op = "action_switch_screen"
    /\ SwitchScreen([tui EXCEPT !.pending = Tail(@)],
                    Head(tui.pending).screen_name)

\* action_refresh_data
RefreshData(handled) ==
    IF ~handled.analyzer
    THEN TuiStep(handled,
                 CallScreen("action_refresh_data", handled.current, FALSE))
    ELSE IF handled.current \notin handled.installed
    THEN TuiStep([handled EXCEPT !.stack = PopScreen(@)],
                 CallScreen("action_refresh_data", handled.current, TRUE))
    ELSE TuiStep([handled EXCEPT
                      !.stack = Append(PopScreen(@), handled.current)],
                 CallScreen("action_refresh_data", handled.current, TRUE))

ActionRefreshData ==
    /\ tui.pending # <<>>
    /\ Head(tui.pending).op = "action_refresh_data"
    /\ RefreshData([tui EXCEPT !.pending = Tail(@)])

\* DatatuiApp.__init__ and on_mount: the worker has been started
InitTui ==
    /\ df = <<>>
    /\ cache = EmptyCache
    /\ computed = NoneComputed
    /\ call = CallScreen("on_mount", "", FALSE)
    /\ ret = Ok(NoValue)
    /\ loader = Absent
    /\ threads = Absent
    /\ tui = [analyzer |-> FALSE, installed |-> {}, stack |-> <<>>,
              current |-> "overview", worker |-> "loading",
              pending |-> <<>>]

NextTui ==
    \/ WorkerLoad
    \/ WorkerAssign
    \/ OnDataLoaded
    \/ OnLoadError
    \/ PostEvent
    \/ ActionSwitchScreen
    \/ ActionRefreshData

SpecTui == InitTui /\ [][NextTui]_vars

\* the step is a key or list event handled by one of the two actions
ScreenAction(event) ==
    event.op \in {"action_switch_screen", "action_refresh_data"}

\* C27: in every interleaving of the load worker with the UI events,
\* action_switch_screen and action_refresh_data call push_screen only when
\* _on_data_loaded has installed all screens; while the analyzer is not
\* set (before the load and after a load error) they leave the screen
\* stack and _current_screen_name as they are; and _current_screen_name is
\* always a key of SCREENS.
C27_PushAfterInstall ==
    [][/\ (ScreenAction(call') /\ call'.pushed) =>
              tui'.installed = ScreenNames
       /\ (ScreenAction(call') /\ ~tui.analyzer) =>
              /\ tui'.stack = tui.stack
              /\ tui'.current = tui.current
       /\ tui'.current \in ScreenNames]_vars

\* the same without the order of push_screen and install_screen
UnchangedWithoutAnalyzer ==
    [][/\ (ScreenAction(call') /\ ~tui.analyzer) =>
              /\ tui'.stack = tui.stack
              /\ tui'.current = tui.current
              /\ ~call'.pushed
       /\ tui.worker = "failed" => ~tui'.analyzer
       /\ tui'.current \in ScreenNames]_vars

====
